---- MODULE Spec2Model ----
(***************************************************************************)
(* The application store of the Smart Service mobile client                *)
(* (AppStoreProvider): the signed-in user, the API bearer token, the four  *)
(* entity lists, and the asynchronous store operations that call the       *)
(* backend and merge its answers into the lists.                           *)
(*                                                                         *)
(* JavaScript runs one callback at a time: every action below is one       *)
(* synchronous stretch of a store callback, from its call (or from the     *)
(* settlement of the promise it awaits) up to its next await or its        *)
(* return.  The backend, the websocket and the clock are the environment.  *)
(***************************************************************************)
EXTENDS Integers, Sequences, FiniteSets, TLC

VARIABLES
    currentUser,          \* useState<PmUser | null>
    authToken,            \* api.ts: let authToken
    conversations,        \* useState<Conversation[]>
    messages,             \* useState<Message[]>
    maintenanceRequests,  \* useState<MaintenanceRequest[]>
    visitNotes,           \* useState<SiteVisitNote[]>
    pending,              \* the store operations suspended at an await, by slot
    sockets,              \* the open realtime clients, with the frames each received
    clock,                \* Date.now()
    remoteCalls,          \* number of backend requests issued so far
    last,                 \* the latest call or settlement of an operation, or signOut
    sinceSignOut,         \* history: signOut ran and no sign-in was started since
    isHydratingAuth,      \* useState(true): the session restore has not finished
    persistedSession,     \* the session kept in the device's storage
    restore,              \* restoreSession of the provider's effect: its position, its flag
    screen                \* the conversation screen: its realtime effect and error state

lists == <<conversations, messages, maintenanceRequests, visitNotes>>
outside == <<isHydratingAuth, persistedSession, restore, screen>>
vars == <<currentUser, authToken, conversations, messages, maintenanceRequests,
          visitNotes, pending, sockets, clock, remoteCalls, last, sinceSignOut,
          isHydratingAuth, persistedSession, restore, screen>>

----------------------------------------------------------------------------
(* Bounds of the model *)

MaxClock == 2
MaxRemoteCalls == 2
MaxMessages == 3
MaxSockets == 1
MaxFrames == 1

----------------------------------------------------------------------------
(* Values *)

NullUser == [id |-> "null", name |-> "null", role |-> "null"]
NullToken == "null"
NoSession == [user |-> NullUser, accessToken |-> NullToken]
NoPhoto == ""
NoTime == -1

UserAnn == [id |-> "u1", name |-> "Ann", role |-> "PM"]
UserBob == [id |-> "u2", name |-> "Bob", role |-> "Tenant"]
Users == {UserAnn, UserBob}

TokenOf(user) == <<"token", user.id>>

(* the session a successful auth call returns *)
Sessions == {[user |-> u, accessToken |-> TokenOf(u)] : u \in Users}

RemoteErrors == {"API request failed (500)", "Network request failed"}

Emails == {"pm@example.com", "bad-email"}
HasAt(email) == email = "pm@example.com"

(* message texts as character sequences *)
Texts == {<<>>, <<" ">>, <<" ", "h">>}
Photos == {NoPhoto, "photo-1"}

RECURSIVE TrimLeft(_)
TrimLeft(s) == IF s # <<>> /\ Head(s) = " " THEN TrimLeft(Tail(s)) ELSE s

RECURSIVE TrimRight(_)
TrimRight(s) ==
    IF s # <<>> /\ s[Len(s)] = " " THEN TrimRight(SubSeq(s, 1, Len(s) - 1)) ELSE s

Trim(s) == TrimRight(TrimLeft(s))

ConversationIds == {"c1", "c2"}
RequestIds == {"r1", "r2"}

Conv(id, status, pm, unread, at, unit) ==
    [id |-> id, status |-> status, assignedPmId |-> pm, unreadCount |-> unread,
     lastMessageAt |-> at, propertyId |-> "p1", unitId |-> unit]

Msg(id, conv, senderType, senderName, body, photo, at) ==
    [id |-> id, conversationId |-> conv, senderType |-> senderType,
     senderName |-> senderName, body |-> body, photoUri |-> photo, createdAt |-> at]

Req(id, conv, unit, status, at) ==
    [id |-> id, conversationId |-> conv, propertyId |-> "p1", unitId |-> unit,
     status |-> status, updatedAt |-> at]

Note(id, req, note, photo, source, author, at) ==
    [id |-> id, maintenanceRequestId |-> req, note |-> note, photoUri |-> photo,
     source |-> source, authorName |-> author, createdAt |-> at]

(* ids the backend gives messages: those a bootstrap holds, and those it *)
(* creates for the n-th request of this client                           *)
ServerMsgId(kind, n) == [k |-> kind, n |-> n]

(* the working sets the backend may answer GET /bootstrap with *)
BootstrapA ==
    [conversations |-> << Conv("c1", "new", "", 2, 0, "unit-1"),
                          Conv("c2", "closed", "u1", 1, 1, "unit-2") >>,
     messages |-> << Msg(ServerMsgId("stored", 1), "c1", "visitor", "Vic", <<"h">>, NoPhoto, 0) >>,
     maintenanceRequests |-> << Req("r1", "c1", "unit-1", "new", 0) >>,
     visitNotes |-> << >>]

BootstrapB ==
    [conversations |-> << Conv("c1", "waiting", "u1", 0, 1, "unit-1") >>,
     messages |-> << Msg(ServerMsgId("stored", 1), "c1", "visitor", "Vic", <<"h">>, NoPhoto, 0),
                     Msg(ServerMsgId("stored", 2), "c1", "pm", "Ann", <<"h", "i">>, NoPhoto, 1) >>,
     maintenanceRequests |-> << Req("r1", "c1", "unit-1", "in_progress", 1),
                                Req("r2", "", "unit-2", "new", 1) >>,
     visitNotes |-> << Note("n1", "r2", <<"h">>, NoPhoto, "visit", "Ann", 1) >>]

Bootstraps == {BootstrapA, BootstrapB}

----------------------------------------------------------------------------
(* Pure helpers of the store *)

isPmRole(role) == role \in {"PM", "Supervisor"}

normalizeConversation_keepsUnread(item) == item

normalizeConversation(item) ==
    IF item.status = "closed" THEN [item EXCEPT !.unreadCount = 0] ELSE item

normalizeConversations(items) ==
    [i \in DOMAIN items |-> normalizeConversation(items[i])]

(* Array.prototype.sort is stable: an element goes before the first element *)
(* of the sorted rest whose lastMessageAt is not later than its own.         *)
RECURSIVE InsertByLastMessageAt(_, _)
InsertByLastMessageAt(x, s) ==
    IF s = <<>> THEN <<x>>
    ELSE IF Head(s).lastMessageAt <= x.lastMessageAt THEN <<x>> \o s
    ELSE <<Head(s)>> \o InsertByLastMessageAt(x, Tail(s))

RECURSIVE sortConversations(_)
sortConversations(items) ==
    IF items = <<>> THEN <<>>
    ELSE InsertByLastMessageAt(Head(items), sortConversations(Tail(items)))

(* items.find(pred) over the list of conversations: the first match or none *)
HasConversation(items, id) == \E i \in DOMAIN items : items[i].id = id
FindConversation(items, id) ==
    items[CHOOSE i \in DOMAIN items :
            items[i].id = id /\ \A j \in 1..(i - 1) : items[j].id # id]

----------------------------------------------------------------------------
(* What the latest step did: the operation, whether the step was its call or *)
(* the settlement of an await, and how the callback left that step.          *)

NoError == ""
Outcome(op, phase, result, error) ==
    [op |-> op, phase |-> phase, result |-> result, error |-> error]

Event(name) == Outcome(name, "env", "none", NoError)
Returned(op) == Outcome(op, "call", "returned", NoError)
Thrown(op, error) == Outcome(op, "call", "threw", error)
Awaiting(op, phase) == Outcome(op, phase, "pending", NoError)
Resolved(op) == Outcome(op, "response", "resolved", NoError)

(* a rejected await is not caught (or is caught and rethrown): the promise *)
(* of the callback rejects with the error of the remote call               *)
Rejection(op, e) == Outcome(op, "response", "threw", e)

----------------------------------------------------------------------------
(* Suspended operations *)

Slots == 1..MaxRemoteCalls
Idle == [op |-> "idle"]
FreeSlots == {s \in Slots : pending[s] = Idle}
HasFreeSlot == FreeSlots # {}
NewSlot == CHOOSE s \in FreeSlots : \A t \in FreeSlots : s <= t
Suspend(rec) == [pending EXCEPT ![NewSlot] = rec]
Settle(s) == [pending EXCEPT ![s] = Idle]
CanCallRemote == HasFreeSlot /\ remoteCalls < MaxRemoteCalls

BootstrapConversations(bootstrap) ==
    sortConversations(normalizeConversations(bootstrap.conversations))

(* the conversation screen is not shown *)
NoClient == 0
ScreenUnmounted ==
    [mounted |-> FALSE, conversationId |-> "", run |-> 0, client |-> NoClient,
     opened |-> {}, realtimeError |-> "null"]

(* restoreSession has finished and the provider is mounted *)
Restored == [pc |-> "done", active |-> TRUE]

(* The provider starts signed out with empty lists; a persisted session that *)
(* restoreSession restored leaves it signed in with a bootstrap applied.      *)
InitSignedOut ==
    /\ currentUser = NullUser
    /\ authToken = NullToken
    /\ persistedSession = NoSession
    /\ conversations = <<>>
    /\ messages = <<>>
    /\ maintenanceRequests = <<>>
    /\ visitNotes = <<>>

InitRestored ==
    \E session \in Sessions, bootstrap \in Bootstraps :
        /\ currentUser = session.user
        /\ authToken = session.accessToken
        /\ persistedSession = session
        /\ conversations = BootstrapConversations(bootstrap)
        /\ messages = bootstrap.messages
        /\ maintenanceRequests = bootstrap.maintenanceRequests
        /\ visitNotes = bootstrap.visitNotes

Init ==
    /\ InitSignedOut \/ InitRestored
    /\ pending = [s \in Slots |-> Idle]
    /\ sockets = {}
    /\ clock = 0
    /\ remoteCalls = 0
    /\ last = Event("init")
    /\ sinceSignOut = FALSE
    /\ isHydratingAuth = FALSE
    /\ restore = Restored
    /\ screen = ScreenUnmounted

----------------------------------------------------------------------------
(* applyBootstrapState: the values the four setters receive *)

applyBootstrapState_unsorted(bootstrap) ==
    /\ conversations' = normalizeConversations(bootstrap.conversations)
    /\ messages' = bootstrap.messages
    /\ maintenanceRequests' = bootstrap.maintenanceRequests
    /\ visitNotes' = bootstrap.visitNotes

applyBootstrapState(bootstrap) ==
    /\ conversations' = BootstrapConversations(bootstrap)
    /\ messages' = bootstrap.messages
    /\ maintenanceRequests' = bootstrap.maintenanceRequests
    /\ visitNotes' = bootstrap.visitNotes

----------------------------------------------------------------------------
(* signIn / signInWithMicrosoft *)

(* the synchronous part of signIn: the e-mail check; signInWithMicrosoft has none *)
signInCall(via, email) ==
    IF via = "password" /\ ~HasAt(email)
    THEN Thrown("signIn", "Please enter a valid email.")
    ELSE Awaiting("signIn", "call")

SignInCall(via, email) ==
    /\ signInCall(via, email).result = "pending"
    /\ CanCallRemote
    /\ pending' = Suspend([op |-> "signIn", pc |-> "auth"])
    /\ remoteCalls' = remoteCalls + 1
    /\ last' = Awaiting("signIn", "call")
    /\ sinceSignOut' = FALSE
    /\ UNCHANGED <<currentUser, authToken, lists, sockets, clock, outside>>

(* remoteApi.signIn rejected: logged and rethrown *)
SignInAuthFailed(s, e) ==
    /\ pending[s].op = "signIn" /\ pending[s].pc = "auth"
    /\ pending' = Settle(s)
    /\ last' = Rejection("signIn", e)
    /\ UNCHANGED <<currentUser, authToken, lists, sockets, clock, remoteCalls, sinceSignOut, outside>>

(* remoteApi.signIn resolved: token and user are stored, the session is persisted *)
SignInAuthOk(s, session) ==
    /\ pending[s].op = "signIn" /\ pending[s].pc = "auth"
    /\ authToken' = session.accessToken
    /\ currentUser' = session.user
    /\ pending' = [pending EXCEPT ![s] =
                     [op |-> "signIn", pc |-> "persist", session |-> session]]
    /\ persistedSession' = session
    /\ last' = Awaiting("signIn", "response")
    /\ UNCHANGED <<lists, sockets, clock, remoteCalls, sinceSignOut, isHydratingAuth,
                   restore, screen>>

(* persistAuthSession resolved: the bootstrap request goes out *)
SignInPersisted(s) ==
    /\ pending[s].op = "signIn" /\ pending[s].pc = "persist"
    /\ pending' = [pending EXCEPT ![s] = [pending[s] EXCEPT !.pc = "bootstrap"]]
    /\ remoteCalls' = remoteCalls + 1
    /\ last' = Awaiting("signIn", "response")
    /\ UNCHANGED <<currentUser, authToken, lists, sockets, clock, sinceSignOut, outside>>

SignInBootstrapOk(s, bootstrap) ==
    /\ pending[s].op = "signIn" /\ pending[s].pc = "bootstrap"
    /\ applyBootstrapState(bootstrap)
    /\ pending' = Settle(s)
    /\ last' = Resolved("signIn")
    /\ UNCHANGED <<currentUser, authToken, sockets, clock, remoteCalls, sinceSignOut, outside>>

SignInBootstrapFailed(s, e) ==
    /\ pending[s].op = "signIn" /\ pending[s].pc = "bootstrap"
    /\ pending' = Settle(s)
    /\ last' = Rejection("signIn", e)
    /\ UNCHANGED <<currentUser, authToken, lists, sockets, clock, remoteCalls, sinceSignOut, outside>>

----------------------------------------------------------------------------
(* signOut *)

signOut_keepsVisitNotes ==
    /\ authToken' = NullToken
    /\ currentUser' = NullUser
    /\ conversations' = <<>>
    /\ messages' = <<>>
    /\ maintenanceRequests' = <<>>
    /\ visitNotes' = visitNotes
    /\ last' = Returned("signOut")
    /\ sinceSignOut' = TRUE
    /\ persistedSession' = NoSession
    /\ UNCHANGED <<pending, sockets, clock, remoteCalls, isHydratingAuth, restore, screen>>

signOut_keepsToken ==
    /\ authToken' = authToken
    /\ currentUser' = NullUser
    /\ conversations' = <<>>
    /\ messages' = <<>>
    /\ maintenanceRequests' = <<>>
    /\ visitNotes' = <<>>
    /\ last' = Returned("signOut")
    /\ sinceSignOut' = TRUE
    /\ persistedSession' = NoSession
    /\ UNCHANGED <<pending, sockets, clock, remoteCalls, isHydratingAuth, restore, screen>>

signOut ==
    /\ authToken' = NullToken
    /\ currentUser' = NullUser
    /\ conversations' = <<>>
    /\ messages' = <<>>
    /\ maintenanceRequests' = <<>>
    /\ visitNotes' = <<>>
    /\ last' = Returned("signOut")
    /\ sinceSignOut' = TRUE
    /\ persistedSession' = NoSession
    /\ UNCHANGED <<pending, sockets, clock, remoteCalls, isHydratingAuth, restore, screen>>

----------------------------------------------------------------------------
(* markConversationRead: local only *)

ReadConversations_decrement(items, conversationId) ==
    normalizeConversations(
      [i \in DOMAIN items |->
         IF items[i].id = conversationId /\ items[i].unreadCount > 0
         THEN [items[i] EXCEPT !.unreadCount = @ - 1]
         ELSE items[i]])

(* the updater markConversationRead passes to setConversations *)
ReadConversations(items, conversationId) ==
    normalizeConversations(
      [i \in DOMAIN items |->
         IF items[i].id = conversationId
         THEN [items[i] EXCEPT !.unreadCount = 0]
         ELSE items[i]])

markConversationRead_keepsOne(conversationId) ==
    /\ conversations' =
         [i \in DOMAIN conversations |->
            IF conversations[i].id = conversationId /\ conversations[i].unreadCount > 1
            THEN [conversations[i] EXCEPT !.unreadCount = 1]
            ELSE conversations[i]]
    /\ UNCHANGED <<currentUser, authToken, messages, maintenanceRequests, visitNotes,
                   pending, sockets, clock, remoteCalls, last, sinceSignOut, outside>>

markConversationRead(conversationId) ==
    /\ conversations' = ReadConversations(conversations, conversationId)
    /\ UNCHANGED <<currentUser, authToken, messages, maintenanceRequests, visitNotes,
                   pending, sockets, clock, remoteCalls, last, sinceSignOut, outside>>

----------------------------------------------------------------------------
(* assignConversation *)

SystemMessage(conversationId, body, now) ==
    Msg([k |-> "msg", n |-> now], conversationId, "system", "System", body, NoPhoto, now)

(* the synchronous part of assignConversation: the role check *)
assignConversationCall(conversationId) ==
    IF currentUser = NullUser \/ ~isPmRole(currentUser.role)
    THEN Thrown("assignConversation", "Please sign in before assigning conversations.")
    ELSE Awaiting("assignConversation", "call")

AssignCall(conversationId) ==
    /\ assignConversationCall(conversationId).result = "pending"
    /\ CanCallRemote
    /\ pending' = Suspend([op |-> "assignConversation", pc |-> "assign",
                           conversationId |-> conversationId, user |-> currentUser])
    /\ remoteCalls' = remoteCalls + 1
    /\ last' = Awaiting("assignConversation", "call")
    /\ UNCHANGED <<currentUser, authToken, lists, sockets, clock, sinceSignOut, outside>>

AssignedConversations_keepsUnread(items, conversationId, user, now) ==
    sortConversations(normalizeConversations(
      [i \in DOMAIN items |->
         IF items[i].id = conversationId
         THEN [items[i] EXCEPT !.status = "assigned", !.assignedPmId = user.id,
                               !.lastMessageAt = now]
         ELSE items[i]]))

AssignedConversations(items, conversationId, user, now) ==
    sortConversations(normalizeConversations(
      [i \in DOMAIN items |->
         IF items[i].id = conversationId
         THEN [items[i] EXCEPT !.status = "assigned", !.assignedPmId = user.id,
                               !.lastMessageAt = now, !.unreadCount = 0]
         ELSE items[i]]))

AssignMessage(conversationId, user, now) ==
    SystemMessage(conversationId, <<user.name, "accepted handoff from bot.">>, now)

AssignOk(s) ==
    /\ pending[s].op = "assignConversation"
    /\ Len(messages) < MaxMessages
    /\ conversations' = AssignedConversations(conversations, pending[s].conversationId,
                                              pending[s].user, clock)
    /\ messages' = Append(messages,
                          AssignMessage(pending[s].conversationId, pending[s].user, clock))
    /\ pending' = Settle(s)
    /\ last' = Resolved("assignConversation")
    /\ UNCHANGED <<currentUser, authToken, maintenanceRequests, visitNotes, sockets, clock,
                   remoteCalls, sinceSignOut, outside>>

AssignFailed(s, e) ==
    /\ pending[s].op = "assignConversation"
    /\ pending' = Settle(s)
    /\ last' = Rejection("assignConversation", e)
    /\ UNCHANGED <<currentUser, authToken, lists, sockets, clock, remoteCalls, sinceSignOut, outside>>

----------------------------------------------------------------------------
(* closeConversation *)

closeConversationCall_noRoleCheck(conversationId) ==
    Awaiting("closeConversation", "call")

closeConversationCall(conversationId) ==
    IF ~isPmRole(currentUser.role)
    THEN Thrown("closeConversation", "Only manager/supervisor can close conversations.")
    ELSE Awaiting("closeConversation", "call")

CloseCall(conversationId) ==
    /\ closeConversationCall(conversationId).result = "pending"
    /\ CanCallRemote
    /\ pending' = Suspend([op |-> "closeConversation", pc |-> "close",
                           conversationId |-> conversationId])
    /\ remoteCalls' = remoteCalls + 1
    /\ last' = Awaiting("closeConversation", "call")
    /\ UNCHANGED <<currentUser, authToken, lists, sockets, clock, sinceSignOut, outside>>

ClosedConversations_unsorted(items, conversationId, now) ==
    normalizeConversations(
      [i \in DOMAIN items |->
         IF items[i].id = conversationId
         THEN [items[i] EXCEPT !.status = "closed", !.unreadCount = 0,
                               !.lastMessageAt = now]
         ELSE items[i]])

ClosedConversations(items, conversationId, now) ==
    sortConversations(normalizeConversations(
      [i \in DOMAIN items |->
         IF items[i].id = conversationId
         THEN [items[i] EXCEPT !.status = "closed", !.unreadCount = 0,
                               !.lastMessageAt = now]
         ELSE items[i]]))

CloseOk(s) ==
    /\ pending[s].op = "closeConversation"
    /\ Len(messages) < MaxMessages
    /\ conversations' = ClosedConversations(conversations, pending[s].conversationId, clock)
    /\ messages' = Append(messages,
                          SystemMessage(pending[s].conversationId,
                                        <<"Conversation closed by property manager.">>,
                                        clock))
    /\ pending' = Settle(s)
    /\ last' = Resolved("closeConversation")
    /\ UNCHANGED <<currentUser, authToken, maintenanceRequests, visitNotes, sockets, clock,
                   remoteCalls, sinceSignOut, outside>>

CloseFailed(s, e) ==
    /\ pending[s].op = "closeConversation"
    /\ pending' = Settle(s)
    /\ last' = Rejection("closeConversation", e)
    /\ UNCHANGED <<currentUser, authToken, lists, sockets, clock, remoteCalls, sinceSignOut, outside>>

----------------------------------------------------------------------------
(* Maintenance notes: resolveLinkedMaintenanceRequest, applyMaintenanceNoteState *)

HasRequest(items, P(_)) == \E i \in DOMAIN items : P(items[i])
FindRequest(items, P(_)) ==
    items[CHOOSE i \in DOMAIN items : P(items[i]) /\ \A j \in 1..(i - 1) : ~P(items[j])]

(* the id of the request a photo sent in the conversation is linked to, "" if none *)
resolveLinkedMaintenanceRequest(conversationId) ==
    LET ByConversation(item) == item.conversationId = conversationId
    IN  IF HasRequest(maintenanceRequests, ByConversation)
        THEN FindRequest(maintenanceRequests, ByConversation).id
        ELSE IF ~HasConversation(conversations, conversationId) THEN ""
        ELSE LET conversation == FindConversation(conversations, conversationId)
                 ByUnit(item) == /\ item.propertyId = conversation.propertyId
                                 /\ item.unitId = conversation.unitId
             IN  IF HasRequest(maintenanceRequests, ByUnit)
                 THEN FindRequest(maintenanceRequests, ByUnit).id
                 ELSE ""

NotedRequests(items, note) ==
    IF note.maintenanceRequestId # ""
    THEN [i \in DOMAIN items |->
            IF items[i].id = note.maintenanceRequestId
            THEN [items[i] EXCEPT !.updatedAt = note.createdAt]
            ELSE items[i]]
    ELSE items

applyMaintenanceNoteState_appends(note) ==
    /\ visitNotes' = Append(visitNotes, note)
    /\ maintenanceRequests' = NotedRequests(maintenanceRequests, note)

applyMaintenanceNoteState(note) ==
    /\ visitNotes' = <<note>> \o visitNotes
    /\ maintenanceRequests' = NotedRequests(maintenanceRequests, note)

----------------------------------------------------------------------------
(* sendMessage *)

hasPhoto(photoUri) == photoUri # NoPhoto

IsClosedInStore(conversationId) ==
    /\ HasConversation(conversations, conversationId)
    /\ FindConversation(conversations, conversationId).status = "closed"

sendMessageCall_noEmptyCheck(conversationId, text, photoUri) ==
    IF currentUser = NullUser THEN Returned("sendMessage")
    ELSE IF IsClosedInStore(conversationId)
    THEN Thrown("sendMessage", "Cannot send a message to a closed conversation.")
    ELSE Awaiting("sendMessage", "call")

(* the synchronous part of sendMessage: two silent returns, then the closed check *)
sendMessageCall(conversationId, text, photoUri) ==
    IF currentUser = NullUser THEN Returned("sendMessage")
    ELSE IF Trim(text) = <<>> /\ ~hasPhoto(photoUri) THEN Returned("sendMessage")
    ELSE IF IsClosedInStore(conversationId)
    THEN Thrown("sendMessage", "Cannot send a message to a closed conversation.")
    ELSE Awaiting("sendMessage", "call")

SendCall(conversationId, text, photoUri) ==
    /\ sendMessageCall(conversationId, text, photoUri).result = "pending"
    /\ CanCallRemote
    /\ pending' = Suspend([op |-> "sendMessage", pc |-> "send",
                           conversationId |-> conversationId, photoUri |-> photoUri,
                           user |-> currentUser,
                           request |-> remoteCalls + 1,
                           linkedRequestId |->
                             resolveLinkedMaintenanceRequest(conversationId)])
    /\ remoteCalls' = remoteCalls + 1
    /\ last' = Awaiting("sendMessage", "call")
    /\ UNCHANGED <<currentUser, authToken, lists, sockets, clock, sinceSignOut, outside>>

(* the Message the backend answers POST .../messages with *)
ServerTimes == {NoTime, 1}
SentMessage(o, at) ==
    Msg(ServerMsgId("sent", o.request), o.conversationId,
        IF isPmRole(o.user.role) THEN "pm" ELSE "visitor",
        o.user.name, <<"h">>, o.photoUri, at)

SentAt(message, now) == IF message.createdAt # NoTime THEN message.createdAt ELSE now

SentStatus(item, actingAsPm) ==
    IF actingAsPm
    THEN (IF item.status = "new" THEN "assigned" ELSE item.status)
    ELSE (IF item.status = "closed" THEN "closed" ELSE "waiting")

SentConversations(items, conversationId, user, now) ==
    sortConversations(normalizeConversations(
      [i \in DOMAIN items |->
         IF items[i].id = conversationId
         THEN [items[i] EXCEPT
                 !.status = SentStatus(items[i], isPmRole(user.role)),
                 !.assignedPmId = IF isPmRole(user.role) THEN user.id
                                  ELSE items[i].assignedPmId,
                 !.lastMessageAt = now,
                 !.unreadCount = 0]
         ELSE items[i]]))

SendLinksPhoto(o) == hasPhoto(o.photoUri) /\ o.linkedRequestId # ""

SendOk(s, at) ==
    LET o == pending[s]
        message == SentMessage(o, at)
        now == SentAt(message, clock)
    IN  /\ o.op = "sendMessage" /\ o.pc = "send"
        /\ Len(messages) < MaxMessages
        /\ messages' = Append(messages, [message EXCEPT !.createdAt = now])
        /\ conversations' = SentConversations(conversations, o.conversationId, o.user, now)
        /\ IF SendLinksPhoto(o)
           THEN /\ pending' = [pending EXCEPT ![s] = [o EXCEPT !.pc = "link"]]
                /\ remoteCalls' = remoteCalls + 1
                /\ last' = Awaiting("sendMessage", "response")
           ELSE /\ pending' = Settle(s)
                /\ remoteCalls' = remoteCalls
                /\ last' = Resolved("sendMessage")
        /\ UNCHANGED <<currentUser, authToken, maintenanceRequests, visitNotes, sockets,
                       clock, sinceSignOut, outside>>

SendFailed_swallowed(s, e) ==
    /\ pending[s].op = "sendMessage" /\ pending[s].pc = "send"
    /\ pending' = Settle(s)
    /\ last' = Resolved("sendMessage")
    /\ UNCHANGED <<currentUser, authToken, lists, sockets, clock, remoteCalls, sinceSignOut, outside>>

SendFailed(s, e) ==
    /\ pending[s].op = "sendMessage" /\ pending[s].pc = "send"
    /\ pending' = Settle(s)
    /\ last' = Rejection("sendMessage", e)
    /\ UNCHANGED <<currentUser, authToken, lists, sockets, clock, remoteCalls, sinceSignOut, outside>>

(* the record the backend answers POST /maintenance/:id/updates with *)
SavedUpdate(o, at) ==
    Note("n2", o.linkedRequestId, <<o.user.name, "shared a photo in chat.">>,
         o.photoUri, "chat", o.user.name, at)

(* addMaintenanceUpdate inside sendMessage settled; a failure is swallowed *)
SendLinkOk(s, at) ==
    LET o == pending[s]
        saved == SavedUpdate(o, at)
    IN  /\ o.op = "sendMessage" /\ o.pc = "link"
        /\ applyMaintenanceNoteState(saved)
        /\ pending' = Settle(s)
        /\ last' = Resolved("sendMessage")
        /\ UNCHANGED <<currentUser, authToken, conversations, messages, sockets, clock,
                       remoteCalls, sinceSignOut, outside>>

SendLinkFailed_rethrows(s, e) ==
    LET o == pending[s]
    IN  /\ o.op = "sendMessage" /\ o.pc = "link"
        /\ pending' = Settle(s)
        /\ last' = Rejection("sendMessage", e)
        /\ UNCHANGED <<currentUser, authToken, lists, sockets, clock, remoteCalls,
                       sinceSignOut, outside>>

SendLinkFailed(s, e) ==
    LET o == pending[s]
    IN  /\ o.op = "sendMessage" /\ o.pc = "link"
        /\ pending' = Settle(s)
        /\ last' = Resolved("sendMessage")
        /\ UNCHANGED <<currentUser, authToken, lists, sockets, clock, remoteCalls,
                       sinceSignOut, outside>>

----------------------------------------------------------------------------
(* updateMaintenanceStatus *)

MaintenanceStatuses == {"in_progress", "done"}

(* the backend's record of a request, as PATCH /maintenance/:id answers it *)
ServerRequest(requestId, status, at) ==
    IF requestId = "r1" THEN Req(requestId, "c1", "unit-1", status, at)
    ELSE Req(requestId, "", "unit-2", status, at)

updateMaintenanceStatusCall(requestId, status) ==
    IF ~isPmRole(currentUser.role)
    THEN Thrown("updateMaintenanceStatus",
                "Only manager/supervisor can update maintenance status.")
    ELSE Awaiting("updateMaintenanceStatus", "call")

UpdateStatusCall(requestId, status) ==
    /\ updateMaintenanceStatusCall(requestId, status).result = "pending"
    /\ CanCallRemote
    /\ pending' = Suspend([op |-> "updateMaintenanceStatus", pc |-> "patch",
                           requestId |-> requestId, status |-> status])
    /\ remoteCalls' = remoteCalls + 1
    /\ last' = Awaiting("updateMaintenanceStatus", "call")
    /\ UNCHANGED <<currentUser, authToken, lists, sockets, clock, sinceSignOut, outside>>

UpdatedRequests_keepsUpdatedAt(items, requestId, updated) ==
    [i \in DOMAIN items |->
       IF items[i].id = requestId
       THEN [updated EXCEPT !.updatedAt = items[i].updatedAt]
       ELSE items[i]]

UpdatedRequests(items, requestId, updated) ==
    [i \in DOMAIN items |-> IF items[i].id = requestId THEN updated ELSE items[i]]

UpdateStatusOk_droppedWhileOtherInFlight(s, at) ==
    LET o == pending[s]
        otherInFlight ==
            \E t \in Slots \ {s} :
                /\ pending[t].op = "updateMaintenanceStatus"
                /\ pending[t].requestId = o.requestId
    IN  /\ o.op = "updateMaintenanceStatus"
        /\ maintenanceRequests' =
             IF otherInFlight THEN maintenanceRequests
             ELSE UpdatedRequests(maintenanceRequests, o.requestId,
                                  ServerRequest(o.requestId, o.status, at))
        /\ pending' = Settle(s)
        /\ last' = Resolved("updateMaintenanceStatus")
        /\ UNCHANGED <<currentUser, authToken, conversations, messages, visitNotes,
                       sockets, clock, remoteCalls, sinceSignOut, outside>>

UpdateStatusOk(s, at) ==
    LET o == pending[s]
    IN  /\ o.op = "updateMaintenanceStatus"
        /\ maintenanceRequests' =
             UpdatedRequests(maintenanceRequests, o.requestId,
                             ServerRequest(o.requestId, o.status, at))
        /\ pending' = Settle(s)
        /\ last' = Resolved("updateMaintenanceStatus")
        /\ UNCHANGED <<currentUser, authToken, conversations, messages, visitNotes,
                       sockets, clock, remoteCalls, sinceSignOut, outside>>

UpdateStatusFailed(s, e) ==
    /\ pending[s].op = "updateMaintenanceStatus"
    /\ pending' = Settle(s)
    /\ last' = Rejection("updateMaintenanceStatus", e)
    /\ UNCHANGED <<currentUser, authToken, lists, sockets, clock, remoteCalls, sinceSignOut, outside>>

----------------------------------------------------------------------------
(* addMaintenanceUpdate, called on its own *)

HasMaintenanceRequest(requestId) ==
    \E i \in DOMAIN maintenanceRequests : maintenanceRequests[i].id = requestId

addMaintenanceUpdateCall(requestId, note, photoUri) ==
    IF currentUser = NullUser
    THEN Thrown("addMaintenanceUpdate", "Please sign in before adding updates.")
    ELSE IF ~HasMaintenanceRequest(requestId)
    THEN Thrown("addMaintenanceUpdate", "Maintenance request not found.")
    ELSE IF Trim(note) = <<>> /\ ~hasPhoto(photoUri)
    THEN Thrown("addMaintenanceUpdate", "Add a note or photo before saving.")
    ELSE Awaiting("addMaintenanceUpdate", "call")

(* the note that is sent: the trimmed text, or a line naming the user *)
ResolvedNote(note, user) ==
    IF Trim(note) # <<>> THEN Trim(note) ELSE <<user.name, "added a photo update.">>

AddUpdateCall(requestId, note, photoUri) ==
    /\ addMaintenanceUpdateCall(requestId, note, photoUri).result = "pending"
    /\ CanCallRemote
    /\ pending' = Suspend([op |-> "addMaintenanceUpdate", pc |-> "save",
                           requestId |-> requestId,
                           note |-> ResolvedNote(note, currentUser),
                           photoUri |-> photoUri, user |-> currentUser])
    /\ remoteCalls' = remoteCalls + 1
    /\ last' = Awaiting("addMaintenanceUpdate", "call")
    /\ UNCHANGED <<currentUser, authToken, lists, sockets, clock, sinceSignOut, outside>>

(* the record the backend answers the update with *)
SavedMaintenanceUpdate(o, at) ==
    Note("n4", o.requestId, o.note, o.photoUri, "maintenance", o.user.name, at)

AddUpdateOk(s, at) ==
    LET o == pending[s]
    IN  /\ o.op = "addMaintenanceUpdate"
        /\ applyMaintenanceNoteState(SavedMaintenanceUpdate(o, at))
        /\ pending' = Settle(s)
        /\ last' = Resolved("addMaintenanceUpdate")
        /\ UNCHANGED <<currentUser, authToken, conversations, messages, sockets, clock,
                       remoteCalls, sinceSignOut, outside>>

AddUpdateFailed(s, e) ==
    /\ pending[s].op = "addMaintenanceUpdate"
    /\ pending' = Settle(s)
    /\ last' = Rejection("addMaintenanceUpdate", e)
    /\ UNCHANGED <<currentUser, authToken, lists, sockets, clock, remoteCalls, sinceSignOut, outside>>

----------------------------------------------------------------------------
(* addVisitNote *)

addVisitNoteCall(note, photoUri) ==
    IF currentUser = NullUser \/ ~isPmRole(currentUser.role)
    THEN Thrown("addVisitNote", "Only manager/supervisor can add site visit notes.")
    ELSE IF Trim(note) = <<>>
    THEN Thrown("addVisitNote", "Please add note details before saving.")
    ELSE Awaiting("addVisitNote", "call")

AddVisitNoteCall(note, photoUri) ==
    /\ addVisitNoteCall(note, photoUri).result = "pending"
    /\ CanCallRemote
    /\ pending' = Suspend([op |-> "addVisitNote", pc |-> "save", user |-> currentUser,
                           photoUri |-> photoUri])
    /\ remoteCalls' = remoteCalls + 1
    /\ last' = Awaiting("addVisitNote", "call")
    /\ UNCHANGED <<currentUser, authToken, lists, sockets, clock, sinceSignOut, outside>>

(* the note POST /visit-notes answers with; the backend links it to a   *)
(* request, r2, which it creates when it does not have it, or to none   *)
SavedRequestIds == {"", "r2"}
SavedVisitNote(o, requestId) ==
    Note("n3", requestId, <<"h">>, o.photoUri, "visit", o.user.name, 1)

AddVisitNoteSaved(s, requestId) ==
    LET o == pending[s]
    IN  /\ o.op = "addVisitNote" /\ o.pc = "save"
        /\ requestId # ""
        /\ applyMaintenanceNoteState(SavedVisitNote(o, requestId))
        /\ pending' = [pending EXCEPT ![s] =
                         [op |-> "addVisitNote", pc |-> "bootstrap",
                          saved |-> SavedVisitNote(o, requestId)]]
        /\ remoteCalls' = remoteCalls + 1
        /\ last' = Awaiting("addVisitNote", "response")
        /\ UNCHANGED <<currentUser, authToken, conversations, messages, sockets, clock,
                       sinceSignOut, outside>>

AddVisitNoteUnlinked(s) ==
    /\ pending[s].op = "addVisitNote" /\ pending[s].pc = "save"
    /\ pending' = Settle(s)
    /\ last' = Outcome("addVisitNote", "response", "threw",
         "Visit note saved, but backend did not return linked maintenance request.")
    /\ UNCHANGED <<currentUser, authToken, lists, sockets, clock, remoteCalls, sinceSignOut, outside>>

AddVisitNoteBootstrapOk_skipsRefresh(s, bootstrap) ==
    /\ pending[s].op = "addVisitNote" /\ pending[s].pc = "bootstrap"
    /\ pending' = Settle(s)
    /\ last' = Resolved("addVisitNote")
    /\ UNCHANGED <<currentUser, authToken, lists, sockets, clock, remoteCalls, sinceSignOut, outside>>

AddVisitNoteBootstrapOk(s, bootstrap) ==
    /\ pending[s].op = "addVisitNote" /\ pending[s].pc = "bootstrap"
    /\ applyBootstrapState(bootstrap)
    /\ pending' = Settle(s)
    /\ last' = Resolved("addVisitNote")
    /\ UNCHANGED <<currentUser, authToken, sockets, clock, remoteCalls, sinceSignOut, outside>>

AddVisitNoteFailed(s, e) ==
    /\ pending[s].op = "addVisitNote"
    /\ pending' = Settle(s)
    /\ last' = Rejection("addVisitNote", e)
    /\ UNCHANGED <<currentUser, authToken, lists, sockets, clock, remoteCalls, sinceSignOut, outside>>

----------------------------------------------------------------------------
(* connectConversationRealtime, the socket's onmessage, and the client's close *)

(* the client connectChatRealtime makes for a suspended connect; caller tells *)
(* which run of the screen's effect asked for it, NoCaller when none did      *)
NoCaller == 0
Socket(o) ==
    [conversationId |-> o.conversationId, userName |-> o.userName, received |-> 0,
     caller |-> o.caller]

(* a caller who is no manager gets null *)
connectConversationRealtimeCall(conversationId) ==
    IF ~isPmRole(currentUser.role) THEN Returned("connectConversationRealtime")
    ELSE Awaiting("connectConversationRealtime", "call")

ConnectCall(conversationId) ==
    /\ connectConversationRealtimeCall(conversationId).result = "pending"
    /\ CanCallRemote
    /\ pending' = Suspend([op |-> "connectConversationRealtime", pc |-> "access",
                           conversationId |-> conversationId,
                           userName |-> currentUser.name, caller |-> NoCaller])
    /\ remoteCalls' = remoteCalls + 1
    /\ last' = Awaiting("connectConversationRealtime", "call")
    /\ UNCHANGED <<currentUser, authToken, lists, sockets, clock, sinceSignOut, outside>>

(* getChatAccess resolved; without a websocket URL no client is made *)
ConnectOk(s, hasUrl) ==
    LET o == pending[s]
    IN  /\ o.op = "connectConversationRealtime"
        /\ hasUrl => Cardinality(sockets) < MaxSockets
        /\ sockets' = IF hasUrl
                      THEN sockets \cup {Socket(o)}
                      ELSE sockets
        /\ pending' = Settle(s)
        /\ last' = Resolved("connectConversationRealtime")
        /\ UNCHANGED <<currentUser, authToken, lists, clock, remoteCalls, sinceSignOut, outside>>

ConnectFailed(s, e) ==
    /\ pending[s].op = "connectConversationRealtime"
    /\ pending' = Settle(s)
    /\ last' = Rejection("connectConversationRealtime", e)
    /\ UNCHANGED <<currentUser, authToken, lists, sockets, clock, remoteCalls, sinceSignOut, outside>>

CloseRealtime(socket) ==
    /\ socket \in sockets
    /\ sockets' = sockets \ {socket}
    /\ UNCHANGED <<currentUser, authToken, lists, pending, clock, remoteCalls, last,
                   sinceSignOut, outside>>

(* the payloads the relay sends: with or without id and createdAt, for any *)
(* conversation, from a visitor, the bot or a manager                      *)
NoMessageId == [k |-> "none"]
FrameSenders == {[senderType |-> "visitor", senderName |-> "Vic"],
                 [senderType |-> "bot", senderName |-> "Bot"],
                 [senderType |-> "pm", senderName |-> "Ann"]}
FrameIds == {NoMessageId, ServerMsgId("sent", 1)}

Payloads ==
    {[id |-> id, conversationId |-> c, senderType |-> sender.senderType,
      senderName |-> sender.senderName, createdAt |-> at] :
        id \in FrameIds, c \in ConversationIds, sender \in FrameSenders,
        at \in ServerTimes}

(* the text of a frame: the JSON text of a payload, that text cut short, or *)
(* text that is no JSON at all                                              *)
JSONstringify(payload) == <<"{", payload, "}">>
Truncated(payload) == <<"{", payload>>
FrameTexts ==
    {JSONstringify(payload) : payload \in Payloads}
        \cup {Truncated(payload) : payload \in Payloads} \cup {<<"oops">>}

JSONparse_lenient(text) ==
    IF Len(text) >= 2 /\ text[1] = "{"
    THEN [threw |-> FALSE, value |-> text[2]]
    ELSE [threw |-> TRUE]

(* JSON.parse: the value of a well-formed text; otherwise it throws *)
JSONparse(text) ==
    IF Len(text) = 3 /\ text[1] = "{" /\ text[3] = "}"
    THEN [threw |-> FALSE, value |-> text[2]]
    ELSE [threw |-> TRUE]

RealtimeId(conversationId, createdAt, senderType, senderName) ==
    [k |-> "rt", conversationId |-> conversationId, createdAt |-> createdAt,
     senderType |-> senderType, senderName |-> senderName]

RealtimeConversations_ignoresBot(items, payload, userName, createdAt) ==
    sortConversations(normalizeConversations(
      [i \in DOMAIN items |->
         IF items[i].id # payload.conversationId THEN items[i]
         ELSE IF items[i].status = "closed" THEN items[i]
         ELSE [items[i] EXCEPT
                 !.lastMessageAt = createdAt,
                 !.unreadCount =
                    IF \/ payload.senderType = "visitor"
                       \/ payload.senderType = "pm" /\ payload.senderName # userName
                    THEN @ + 1 ELSE @]]))

RealtimeConversations(items, payload, userName, createdAt) ==
    sortConversations(normalizeConversations(
      [i \in DOMAIN items |->
         IF items[i].id # payload.conversationId THEN items[i]
         ELSE IF items[i].status = "closed" THEN items[i]
         ELSE [items[i] EXCEPT
                 !.lastMessageAt = createdAt,
                 !.unreadCount =
                    IF \/ payload.senderType \in {"visitor", "bot"}
                       \/ payload.senderType = "pm" /\ payload.senderName # userName
                    THEN @ + 1 ELSE @]]))

(* applyRealtimeMessage as the socket's onMessage: userName is the name of *)
(* the user the callback was created for                                   *)
applyRealtimeMessage(userName, payload) ==
    LET createdAt == IF payload.createdAt # NoTime THEN payload.createdAt ELSE clock
        messageId == IF payload.id # NoMessageId THEN payload.id
                     ELSE RealtimeId(payload.conversationId, createdAt,
                                     payload.senderType, payload.senderName)
    IN  /\ Len(messages) < MaxMessages
        /\ messages' =
             IF \E i \in DOMAIN messages : messages[i].id = messageId THEN messages
             ELSE Append(messages,
                         Msg(messageId, payload.conversationId, payload.senderType,
                             payload.senderName, <<"h">>, NoPhoto, createdAt))
        /\ conversations' =
             RealtimeConversations(conversations, payload, userName, createdAt)
        /\ UNCHANGED <<currentUser, authToken, maintenanceRequests, visitNotes, pending,
                       clock, remoteCalls, last, sinceSignOut, outside>>

ParseError ==
    Outcome("socket.onmessage", "env", "onError", "Unable to parse incoming chat payload.")

(* the run of the screen's realtime effect whose "active" flag is still true *)
EffectActive(run) == screen.mounted /\ screen.run = run

(* the onError callback of the client made for caller: the screen's effect  *)
(* stores the message while its run is active; other callers pass nothing   *)
(* that touches the screen                                                  *)
onError(caller, message) ==
    screen' = IF caller # NoCaller /\ EffectActive(caller)
              THEN [screen EXCEPT !.realtimeError = message]
              ELSE screen

(* socket.onmessage of the realtime client: parse, hand the payload to *)
(* onMessage; anything thrown goes to onError                          *)
socketOnMessage(socket, text) ==
    /\ socket \in sockets
    /\ socket.received < MaxFrames
    /\ sockets' = (sockets \ {socket}) \cup {[socket EXCEPT !.received = @ + 1]}
    /\ IF ~JSONparse(text).threw
       THEN applyRealtimeMessage(socket.userName, JSONparse(text).value)
       ELSE /\ last' = ParseError
            /\ onError(socket.caller, ParseError.error)
            /\ UNCHANGED <<currentUser, authToken, lists, pending, clock, remoteCalls,
                           sinceSignOut, isHydratingAuth, persistedSession, restore>>

----------------------------------------------------------------------------
(* refreshConversationMessages *)

(* what GET /conversations/:id/messages may answer with: the messages of  *)
(* the conversation, in any order, and the backend's view of the          *)
(* conversation, every field of which may be missing                      *)
Absent == "absent"
NoCount == -1
NoRemoteConversation == [status |-> "none"]
RemoteConversations ==
    {NoRemoteConversation,
     [status |-> "closed", assignedPmId |-> Absent, unreadCount |-> 3,
      lastMessageAt |-> NoTime],
     [status |-> Absent, assignedPmId |-> "u1", unreadCount |-> NoCount,
      lastMessageAt |-> 1]}

PolledNew(conversationId) ==
    Msg(ServerMsgId("stored", IF conversationId = "c1" THEN 3 ELSE 4), conversationId,
        "visitor", "Vic", <<"h">>, NoPhoto, 0)
PolledSent(conversationId) ==
    Msg(ServerMsgId("sent", 1), conversationId, "pm", "Ann", <<"h">>, NoPhoto, 1)

RefreshResponses(conversationId) ==
    {[conversation |-> remote, messages |-> list] :
        remote \in RemoteConversations,
        list \in {<<>>, <<PolledNew(conversationId)>>, <<PolledSent(conversationId)>>,
                  <<PolledSent(conversationId), PolledNew(conversationId)>>}}

(* [...response.messages].sort by createdAt, ascending; the sort is stable *)
RECURSIVE InsertByCreatedAt(_, _)
InsertByCreatedAt(x, s) ==
    IF s = <<>> THEN <<x>>
    ELSE IF x.createdAt <= Head(s).createdAt THEN <<x>> \o s
    ELSE <<Head(s)>> \o InsertByCreatedAt(x, Tail(s))

RECURSIVE sortMessages(_)
sortMessages(items) ==
    IF items = <<>> THEN <<>>
    ELSE InsertByCreatedAt(Head(items), sortMessages(Tail(items)))

(* the ids of the stored messages of the conversation *)
ExistingIds(prev, conversationId) ==
    {prev[i].id : i \in {j \in DOMAIN prev : prev[j].conversationId = conversationId}}

(* the loop of the setMessages updater: a remote message whose id is not *)
(* among existingIds is appended and its id is added to them             *)
RECURSIVE MergeMessages(_, _, _)
MergeMessages(merged, existingIds, remoteMessages) ==
    IF remoteMessages = <<>> THEN merged
    ELSE IF Head(remoteMessages).id \in existingIds
         THEN MergeMessages(merged, existingIds, Tail(remoteMessages))
         ELSE MergeMessages(Append(merged, Head(remoteMessages)),
                            existingIds \cup {Head(remoteMessages).id},
                            Tail(remoteMessages))

MergedMessages(prev, conversationId, remoteMessages) ==
    MergeMessages(prev, ExistingIds(prev, conversationId), remoteMessages)

(* latestCreatedAt after the loop: the latest time of the remote messages *)
LatestCreatedAt(remoteMessages) ==
    IF remoteMessages = <<>> THEN NoTime
    ELSE remoteMessages[Len(remoteMessages)].createdAt

(* a ?? b on the fields of the remote conversation *)
Coalesce(value, missing, fallback) == IF value # missing THEN value ELSE fallback

RaisesUnread(message, userName) ==
    \/ message.senderType \in {"visitor", "bot"}
    \/ message.senderType = "pm" /\ message.senderName # userName

UnreadIncrements(insertedMessages, userName) ==
    Cardinality({i \in DOMAIN insertedMessages :
                   RaisesUnread(insertedMessages[i], userName)})

(* the conversations after a refresh that found nothing to insert *)
RefreshedUnchangedMessages(items, conversationId, remote) ==
    IF remote = NoRemoteConversation THEN items
    ELSE sortConversations(normalizeConversations(
           [i \in DOMAIN items |->
              IF items[i].id = conversationId
              THEN [items[i] EXCEPT
                      !.status = Coalesce(remote.status, Absent, @),
                      !.assignedPmId = Coalesce(remote.assignedPmId, Absent, @),
                      !.unreadCount = Coalesce(remote.unreadCount, NoCount, @),
                      !.lastMessageAt = Coalesce(remote.lastMessageAt, NoTime, @)]
              ELSE items[i]]))

(* the conversations after a refresh that inserted messages *)
RefreshedInserted(items, conversationId, remote, insertedMessages, latest, userName) ==
    sortConversations(normalizeConversations(
      [i \in DOMAIN items |->
         IF items[i].id = conversationId
         THEN IF remote = NoRemoteConversation
              THEN [items[i] EXCEPT
                      !.unreadCount = @ + UnreadIncrements(insertedMessages, userName),
                      !.lastMessageAt = Coalesce(latest, NoTime, @)]
              ELSE [items[i] EXCEPT
                      !.status = Coalesce(remote.status, Absent, @),
                      !.assignedPmId = Coalesce(remote.assignedPmId, Absent, @),
                      !.unreadCount =
                         Coalesce(remote.unreadCount, NoCount,
                                  @ + UnreadIncrements(insertedMessages, userName)),
                      !.lastMessageAt =
                         Coalesce(remote.lastMessageAt, NoTime,
                                  Coalesce(latest, NoTime, @))]
         ELSE items[i]]))

(* no check precedes the request *)
refreshConversationMessagesCall(conversationId) ==
    Awaiting("refreshConversationMessages", "call")

RefreshCall(conversationId) ==
    /\ refreshConversationMessagesCall(conversationId).result = "pending"
    /\ CanCallRemote
    /\ pending' = Suspend([op |-> "refreshConversationMessages", pc |-> "get",
                           conversationId |-> conversationId,
                           userName |-> currentUser.name])
    /\ remoteCalls' = remoteCalls + 1
    /\ last' = Awaiting("refreshConversationMessages", "call")
    /\ UNCHANGED <<currentUser, authToken, lists, sockets, clock, sinceSignOut, outside>>

(* the request resolved.  insertedMessages and latestCreatedAt are filled in *)
(* by the setMessages updater, which React runs either at once or with the   *)
(* next render: ranUpdater tells whether it ran before they are read.        *)
RefreshOk(s, response, ranUpdater) ==
    LET o == pending[s]
        remoteMessages == sortMessages(response.messages)
        merged == MergedMessages(messages, o.conversationId, remoteMessages)
        insertedMessages ==
            IF ranUpdater THEN SubSeq(merged, Len(messages) + 1, Len(merged)) ELSE <<>>
        latest == IF ranUpdater THEN LatestCreatedAt(remoteMessages) ELSE NoTime
    IN  /\ o.op = "refreshConversationMessages"
        /\ response \in RefreshResponses(o.conversationId)
        /\ Len(merged) <= MaxMessages
        /\ messages' = merged
        /\ conversations' =
             IF insertedMessages = <<>>
             THEN RefreshedUnchangedMessages(conversations, o.conversationId,
                                             response.conversation)
             ELSE RefreshedInserted(conversations, o.conversationId,
                                    response.conversation, insertedMessages, latest,
                                    o.userName)
        /\ pending' = Settle(s)
        /\ last' = Resolved("refreshConversationMessages")
        /\ UNCHANGED <<currentUser, authToken, maintenanceRequests, visitNotes, sockets,
                       clock, remoteCalls, sinceSignOut, outside>>

RefreshFailed(s, e) ==
    /\ pending[s].op = "refreshConversationMessages"
    /\ pending' = Settle(s)
    /\ last' = Rejection("refreshConversationMessages", e)
    /\ UNCHANGED <<currentUser, authToken, lists, sockets, clock, remoteCalls, sinceSignOut, outside>>

----------------------------------------------------------------------------
(* restoreSession: the provider's effect at startup, and its cleanup *)

(* the provider as it mounts: signed out, hydrating, with or without a *)
(* session in the device's storage                                     *)
RestoreInit ==
    /\ currentUser = NullUser
    /\ authToken = NullToken
    /\ conversations = <<>>
    /\ messages = <<>>
    /\ maintenanceRequests = <<>>
    /\ visitNotes = <<>>
    /\ persistedSession \in {NoSession} \cup Sessions
    /\ isHydratingAuth = TRUE
    /\ restore = [pc |-> "load", active |-> TRUE]
    /\ pending = [s \in Slots |-> Idle]
    /\ sockets = {}
    /\ clock = 0
    /\ remoteCalls = 0
    /\ last = Event("init")
    /\ sinceSignOut = FALSE
    /\ screen = ScreenUnmounted

(* what restoreSession logs as it ends *)
Logged(event, error) == Outcome("restoreSession", "response", event, error)

(* loadPersistedAuthSession resolved: without a session restoreSession ends; *)
(* with one, token and user are set and the bootstrap request goes out.  A   *)
(* state setter of an unmounted provider does nothing.                       *)
RestoreLoaded ==
    /\ restore.pc = "load"
    /\ IF persistedSession = NoSession
       THEN /\ restore' = [restore EXCEPT !.pc = "done"]
            /\ isHydratingAuth' = IF restore.active THEN FALSE ELSE isHydratingAuth
            /\ last' = Logged("restore.no_session", NoError)
            /\ UNCHANGED <<currentUser, authToken, remoteCalls>>
       ELSE /\ remoteCalls < MaxRemoteCalls
            /\ authToken' = persistedSession.accessToken
            /\ currentUser' = IF restore.active THEN persistedSession.user ELSE currentUser
            /\ remoteCalls' = remoteCalls + 1
            /\ restore' = [restore EXCEPT !.pc = "bootstrap"]
            /\ last' = Awaiting("restoreSession", "response")
            /\ UNCHANGED isHydratingAuth
    /\ UNCHANGED <<lists, pending, sockets, clock, sinceSignOut, persistedSession, screen>>

(* getBootstrap resolved *)
RestoreBootstrapOk(bootstrap) ==
    /\ restore.pc = "bootstrap"
    /\ restore' = [restore EXCEPT !.pc = "done"]
    /\ IF restore.active
       THEN /\ applyBootstrapState(bootstrap)
            /\ isHydratingAuth' = FALSE
            /\ last' = Logged("restore.success", NoError)
       ELSE /\ UNCHANGED <<lists, isHydratingAuth>>
            /\ last' = Returned("restoreSession")
    /\ UNCHANGED <<currentUser, authToken, pending, sockets, clock, remoteCalls,
                   sinceSignOut, persistedSession, screen>>

RestoreFailed_keepsSession(e) ==
    /\ restore.pc \in {"load", "bootstrap"}
    /\ restore' = [restore EXCEPT !.pc = "done"]
    /\ IF restore.active
       THEN /\ authToken' = NullToken
            /\ currentUser' = NullUser
            /\ conversations' = <<>>
            /\ messages' = <<>>
            /\ maintenanceRequests' = <<>>
            /\ visitNotes' = <<>>
            /\ persistedSession' = persistedSession
            /\ isHydratingAuth' = FALSE
            /\ last' = Logged("restore.failed", e)
       ELSE /\ UNCHANGED <<currentUser, authToken, lists, persistedSession,
                           isHydratingAuth>>
            /\ last' = Returned("restoreSession")
    /\ UNCHANGED <<pending, sockets, clock, remoteCalls, sinceSignOut, screen>>

(* the load or the bootstrap request rejected: the catch block, then finally *)
RestoreFailed(e) ==
    /\ restore.pc \in {"load", "bootstrap"}
    /\ restore' = [restore EXCEPT !.pc = "done"]
    /\ IF restore.active
       THEN /\ authToken' = NullToken
            /\ currentUser' = NullUser
            /\ conversations' = <<>>
            /\ messages' = <<>>
            /\ maintenanceRequests' = <<>>
            /\ visitNotes' = <<>>
            /\ persistedSession' = NoSession
            /\ isHydratingAuth' = FALSE
            /\ last' = Logged("restore.failed", e)
       ELSE /\ UNCHANGED <<currentUser, authToken, lists, persistedSession,
                           isHydratingAuth>>
            /\ last' = Returned("restoreSession")
    /\ UNCHANGED <<pending, sockets, clock, remoteCalls, sinceSignOut, screen>>

(* the effect's cleanup: the provider unmounts while restoreSession is suspended *)
ProviderUnmount ==
    /\ restore.active /\ restore.pc # "done"
    /\ restore' = [restore EXCEPT !.active = FALSE]
    /\ UNCHANGED <<currentUser, authToken, lists, pending, sockets, clock, remoteCalls,
                   last, sinceSignOut, isHydratingAuth, persistedSession, screen>>

----------------------------------------------------------------------------
(* ConversationDetailScreen: the effect that opens the realtime connection, *)
(* its cleanup, and the callbacks it passes                                 *)

MaxRuns == 3

canManageConversation == currentUser.role \in {"PM", "Supervisor"}

(* the cleanup's realtimeClientRef.current?.close() *)
ClientClosed(clients, client) ==
    IF client = NoClient THEN clients
    ELSE {socket \in clients : socket.caller # client}

(* connect() of the run: nothing for a user who cannot manage; otherwise the *)
(* error is reset and connectConversationRealtime is called and awaited      *)
StartConnect(conversationId, run) ==
    IF canManageConversation
    THEN /\ CanCallRemote
         /\ pending' = Suspend([op |-> "connectConversationRealtime", pc |-> "access",
                                conversationId |-> conversationId,
                                userName |-> currentUser.name, caller |-> run])
         /\ remoteCalls' = remoteCalls + 1
         /\ last' = Awaiting("connectConversationRealtime", "call")
    ELSE UNCHANGED <<pending, remoteCalls, last>>

(* the screen is shown: its effects run for the first time *)
ScreenMount(conversationId) ==
    /\ ~screen.mounted
    /\ screen.run < MaxRuns
    /\ screen' = [mounted |-> TRUE, conversationId |-> conversationId,
                  run |-> screen.run + 1, client |-> NoClient, opened |-> screen.opened,
                  realtimeError |-> "null"]
    /\ conversations' = ReadConversations(conversations, conversationId)
    /\ StartConnect(conversationId, screen.run + 1)
    /\ UNCHANGED <<currentUser, authToken, messages, maintenanceRequests, visitNotes,
                   sockets, clock, sinceSignOut, isHydratingAuth, persistedSession,
                   restore>>

(* a dependency of the effect changed: the cleanup of the last run, then a *)
(* new run                                                                 *)
ScreenRerun ==
    /\ screen.mounted
    /\ screen.run < MaxRuns
    /\ sockets' = ClientClosed(sockets, screen.client)
    /\ screen' = [screen EXCEPT !.run = @ + 1, !.client = NoClient,
                                !.realtimeError =
                                   IF canManageConversation THEN "null" ELSE @]
    /\ StartConnect(screen.conversationId, screen.run + 1)
    /\ UNCHANGED <<currentUser, authToken, lists, clock, sinceSignOut, isHydratingAuth,
                   persistedSession, restore>>

(* the screen goes away: the cleanup of the last run *)
ScreenUnmount ==
    /\ screen.mounted
    /\ sockets' = ClientClosed(sockets, screen.client)
    /\ screen' = [screen EXCEPT !.mounted = FALSE, !.client = NoClient]
    /\ UNCHANGED <<currentUser, authToken, lists, pending, clock, remoteCalls, last,
                   sinceSignOut, isHydratingAuth, persistedSession, restore>>

ScreenConnectOk_keepsLateClient(s, hasUrl) ==
    LET o == pending[s]
    IN  /\ o.op = "connectConversationRealtime" /\ o.caller # NoCaller
        /\ sockets' = IF hasUrl THEN sockets \cup {Socket(o)} ELSE sockets
        /\ screen' = [screen EXCEPT
                        !.client = IF hasUrl THEN o.caller ELSE NoClient,
                        !.opened = IF hasUrl THEN @ \cup {o.caller} ELSE @]
        /\ pending' = Settle(s)
        /\ last' = Resolved("connectConversationRealtime")
        /\ UNCHANGED <<currentUser, authToken, lists, clock, remoteCalls, sinceSignOut,
                       isHydratingAuth, persistedSession, restore>>

(* connectConversationRealtime resolved, with a client or with null: a run *)
(* that is no longer active closes the client, an active one keeps it in   *)
(* realtimeClientRef                                                       *)
ScreenConnectOk(s, hasUrl) ==
    LET o == pending[s]
    IN  /\ o.op = "connectConversationRealtime" /\ o.caller # NoCaller
        /\ IF EffectActive(o.caller)
           THEN /\ sockets' = IF hasUrl THEN sockets \cup {Socket(o)} ELSE sockets
                /\ screen' = [screen EXCEPT
                                !.client = IF hasUrl THEN o.caller ELSE NoClient,
                                !.opened = IF hasUrl THEN @ \cup {o.caller} ELSE @]
           ELSE /\ sockets' = sockets
                /\ screen' = [screen EXCEPT
                                !.opened = IF hasUrl THEN @ \cup {o.caller} ELSE @]
        /\ pending' = Settle(s)
        /\ last' = Resolved("connectConversationRealtime")
        /\ UNCHANGED <<currentUser, authToken, lists, clock, remoteCalls, sinceSignOut,
                       isHydratingAuth, persistedSession, restore>>

(* connectConversationRealtime rejected: the catch block of connect() *)
ScreenConnectFailed(s, e) ==
    LET o == pending[s]
    IN  /\ o.op = "connectConversationRealtime" /\ o.caller # NoCaller
        /\ screen' = IF EffectActive(o.caller)
                     THEN [screen EXCEPT !.realtimeError = e]
                     ELSE screen
        /\ pending' = Settle(s)
        /\ last' = Rejection("connectConversationRealtime", e)
        /\ UNCHANGED <<currentUser, authToken, lists, sockets, clock, remoteCalls,
                       sinceSignOut, isHydratingAuth, persistedSession, restore>>

(* socket.onerror of a client made for the screen, open or closed since *)
socketOnError(caller) ==
    /\ caller \in screen.opened
    /\ onError(caller, "Chat connection error.")
    /\ UNCHANGED <<currentUser, authToken, lists, pending, sockets, clock, remoteCalls,
                   last, sinceSignOut, isHydratingAuth, persistedSession, restore>>

----------------------------------------------------------------------------
(* the clock *)

Tick ==
    /\ clock < MaxClock
    /\ clock' = clock + 1
    /\ UNCHANGED <<currentUser, authToken, lists, pending, sockets, remoteCalls, last,
                   sinceSignOut, outside>>

----------------------------------------------------------------------------

Next ==
    \/ \E via \in {"password", "microsoft"}, email \in Emails : SignInCall(via, email)
    \/ \E s \in Slots, e \in RemoteErrors : SignInAuthFailed(s, e)
    \/ \E s \in Slots, session \in Sessions : SignInAuthOk(s, session)
    \/ \E s \in Slots : SignInPersisted(s)
    \/ \E s \in Slots, b \in Bootstraps : SignInBootstrapOk(s, b)
    \/ \E s \in Slots, e \in RemoteErrors : SignInBootstrapFailed(s, e)
    \/ signOut
    \/ \E c \in ConversationIds : markConversationRead(c)
    \/ \E c \in ConversationIds : AssignCall(c)
    \/ \E s \in Slots : AssignOk(s)
    \/ \E s \in Slots, e \in RemoteErrors : AssignFailed(s, e)
    \/ \E c \in ConversationIds : CloseCall(c)
    \/ \E s \in Slots : CloseOk(s)
    \/ \E s \in Slots, e \in RemoteErrors : CloseFailed(s, e)
    \/ \E c \in ConversationIds, t \in Texts, p \in Photos : SendCall(c, t, p)
    \/ \E s \in Slots, at \in ServerTimes : SendOk(s, at)
    \/ \E s \in Slots, e \in RemoteErrors : SendFailed(s, e)
    \/ \E s \in Slots, at \in ServerTimes \ {NoTime} : SendLinkOk(s, at)
    \/ \E s \in Slots, e \in RemoteErrors : SendLinkFailed(s, e)
    \/ \E r \in RequestIds, st \in MaintenanceStatuses : UpdateStatusCall(r, st)
    \/ \E s \in Slots, at \in ServerTimes \ {NoTime} : UpdateStatusOk(s, at)
    \/ \E s \in Slots, e \in RemoteErrors : UpdateStatusFailed(s, e)
    \/ \E r \in RequestIds, t \in Texts, p \in Photos : AddUpdateCall(r, t, p)
    \/ \E s \in Slots, at \in ServerTimes \ {NoTime} : AddUpdateOk(s, at)
    \/ \E s \in Slots, e \in RemoteErrors : AddUpdateFailed(s, e)
    \/ \E t \in Texts, p \in Photos : AddVisitNoteCall(t, p)
    \/ \E s \in Slots, r \in SavedRequestIds : AddVisitNoteSaved(s, r)
    \/ \E s \in Slots : AddVisitNoteUnlinked(s)
    \/ \E s \in Slots, b \in Bootstraps : AddVisitNoteBootstrapOk(s, b)
    \/ \E s \in Slots, e \in RemoteErrors : AddVisitNoteFailed(s, e)
    \/ \E c \in ConversationIds : ConnectCall(c)
    \/ \E s \in Slots, hasUrl \in BOOLEAN : ConnectOk(s, hasUrl)
    \/ \E s \in Slots, e \in RemoteErrors : ConnectFailed(s, e)
    \/ \E socket \in sockets : CloseRealtime(socket)
    \/ \E socket \in sockets, text \in FrameTexts : socketOnMessage(socket, text)
    \/ Tick

Spec == Init /\ [][Next]_vars

(* the store with the message poll of the conversation screen *)
AllRefreshResponses ==
    UNION {RefreshResponses(c) : c \in ConversationIds}

RefreshNext ==
    \/ Next
    \/ \E c \in ConversationIds : RefreshCall(c)
    \/ \E s \in Slots, response \in AllRefreshResponses, ranUpdater \in BOOLEAN :
          RefreshOk(s, response, ranUpdater)
    \/ \E s \in Slots, e \in RemoteErrors : RefreshFailed(s, e)

RefreshSpec == Init /\ [][RefreshNext]_vars

(* the store from the mounting of the provider on *)
RestoreNext ==
    \/ Next
    \/ RestoreLoaded
    \/ \E b \in Bootstraps : RestoreBootstrapOk(b)
    \/ \E e \in RemoteErrors : RestoreFailed(e)
    \/ ProviderUnmount

RestoreSpec == RestoreInit /\ [][RestoreNext]_vars

(* the conversation screen over the store *)
ScreenNext ==
    \/ \E c \in ConversationIds : ScreenMount(c)
    \/ ScreenRerun
    \/ ScreenUnmount
    \/ \E s \in Slots, hasUrl \in BOOLEAN : ScreenConnectOk(s, hasUrl)
    \/ \E s \in Slots, e \in RemoteErrors : ScreenConnectFailed(s, e)
    \/ \E run \in 1..MaxRuns : socketOnError(run)
    \/ \E socket \in sockets, text \in FrameTexts : socketOnMessage(socket, text)
    \/ signOut
    \/ Tick

ScreenSpec == Init /\ [][ScreenNext]_vars

----------------------------------------------------------------------------
(* Properties *)

AllEmpty ==
    /\ conversations = <<>>
    /\ messages = <<>>
    /\ maintenanceRequests = <<>>
    /\ visitNotes = <<>>

SomethingPending == \E s \in Slots : pending[s] # Idle

(* C1: signOut, called in any state, leaves currentUser null, the API token *)
(* cleared and all four lists empty.                                        *)
C1_SignOutClears ==
    [][signOut => /\ currentUser' = NullUser
                  /\ authToken' = NullToken
                  /\ conversations' = <<>>
                  /\ messages' = <<>>
                  /\ maintenanceRequests' = <<>>
                  /\ visitNotes' = <<>>]_vars

(* signOut has just run on a signed-in store while an operation was suspended *)
C1_Witness ==
    /\ last = Returned("signOut")
    /\ currentUser = NullUser /\ authToken = NullToken /\ AllEmpty
    /\ SomethingPending

IsClosed(item) == item.status = "closed"

(* every conversation that is closed before the step and still listed after *)
(* it is closed after it                                                    *)
ClosedStaysClosed ==
    \A i \in DOMAIN conversations :
        IsClosed(conversations[i]) =>
            \A j \in DOMAIN conversations' :
                conversations'[j].id = conversations[i].id => IsClosed(conversations'[j])

(* a step of assignConversation, sendMessage, closeConversation, *)
(* markConversationRead or an inbound realtime message           *)
ConversationStep ==
    \/ \E c \in ConversationIds : AssignCall(c) \/ CloseCall(c) \/ markConversationRead(c)
    \/ \E c \in ConversationIds, t \in Texts, p \in Photos : SendCall(c, t, p)
    \/ \E s \in Slots : AssignOk(s) \/ CloseOk(s)
    \/ \E s \in Slots, e \in RemoteErrors :
          AssignFailed(s, e) \/ CloseFailed(s, e) \/ SendFailed(s, e) \/ SendLinkFailed(s, e)
    \/ \E s \in Slots, at \in ServerTimes : SendOk(s, at) \/ SendLinkOk(s, at)
    \/ \E socket \in sockets, payload \in Payloads :
          socketOnMessage(socket, JSONstringify(payload))

(* C2: once a conversation's status is closed, no step of assignConversation, *)
(* sendMessage, closeConversation, markConversationRead or an inbound         *)
(* realtime message changes it to another status.                             *)
C2_ClosedIsTerminal == [][ConversationStep => ClosedStaysClosed]_vars

ClosedError == Thrown("sendMessage", "Cannot send a message to a closed conversation.")

(* C3: sendMessage with non-empty text on a conversation that is closed in *)
(* the store always throws the closed-conversation error; it issues no     *)
(* remote call and leaves the lists unchanged.                             *)
C3_SendToClosedThrows ==
    \A c \in ConversationIds, t \in Texts, p \in Photos :
        Trim(t) # <<>> /\ IsClosedInStore(c) => sendMessageCall(c, t, p) = ClosedError

(* C4: sendMessage with whitespace-only text and no photo returns without *)
(* error, issues no remote call and leaves the lists unchanged.           *)
C4_SendBlankReturns ==
    /\ [](\A c \in ConversationIds, t \in Texts :
            Trim(t) = <<>> => sendMessageCall(c, t, NoPhoto) = Returned("sendMessage"))
    /\ [][\A c \in ConversationIds, t \in Texts :
            Trim(t) = <<>> => ~SendCall(c, t, NoPhoto)]_vars

(* a signed-in user with an open conversation: the same call with text goes *)
(* to the backend, the blank one returns                                    *)
C4_Witness ==
    /\ currentUser # NullUser
    /\ CanCallRemote
    /\ \E c \in ConversationIds :
          /\ HasConversation(conversations, c) /\ ~IsClosedInStore(c)
          /\ sendMessageCall(c, <<" ">>, NoPhoto) = Returned("sendMessage")
          /\ sendMessageCall(c, <<" ", "h">>, NoPhoto) = Awaiting("sendMessage", "call")

(* the store after assignConversation of the suspended call in slot s resolved *)
AssignPost(s) ==
    LET o == pending[s]
    IN  /\ \A i \in DOMAIN conversations' :
              conversations'[i].id = o.conversationId =>
                  /\ conversations'[i].status = "assigned"
                  /\ conversations'[i].assignedPmId = o.user.id
                  /\ conversations'[i].unreadCount = 0
        /\ Len(messages') = Len(messages) + 1
        /\ SubSeq(messages', 1, Len(messages)) = messages
        /\ LET m == messages'[Len(messages')]
           IN  /\ m.senderType = "system"
               /\ m.conversationId = o.conversationId
               /\ Head(m.body) = o.user.name

(* C5: when assignConversation(id) succeeds for a manager, the conversation *)
(* has status assigned, assignedPmId = the acting user's id and unreadCount *)
(* 0, and exactly one system message naming the acting user was appended.   *)
C5_AssignPostcondition ==
    [][\A s \in Slots :
         (/\ pending[s].op = "assignConversation"
          /\ pending'[s] = Idle
          /\ last' = Resolved("assignConversation")) => AssignPost(s)]_vars

(* an assignment by Ann of a listed conversation has just resolved *)
C5_Witness ==
    /\ last = Resolved("assignConversation")
    /\ \E i \in DOMAIN conversations :
          /\ conversations[i].status = "assigned"
          /\ conversations[i].assignedPmId = UserAnn.id
          /\ conversations[i].unreadCount = 0
          /\ messages # <<>>
          /\ messages[Len(messages)].senderType = "system"
          /\ messages[Len(messages)].conversationId = conversations[i].id
          /\ Head(messages[Len(messages)].body) = UserAnn.name

NotManager == currentUser = NullUser \/ ~isPmRole(currentUser.role)

(* the five manager-only operations all stop at their role check *)
ManagerOnlyRefused ==
    /\ \A c \in ConversationIds :
          /\ assignConversationCall(c).result = "threw"
          /\ closeConversationCall(c).result = "threw"
          /\ connectConversationRealtimeCall(c) = Returned("connectConversationRealtime")
    /\ \A r \in RequestIds, st \in MaintenanceStatuses :
          updateMaintenanceStatusCall(r, st).result = "threw"
    /\ \A t \in Texts, p \in Photos : addVisitNoteCall(t, p).result = "threw"

(* a step that is the call of one of the five manager-only operations *)
ManagerOnlyCall ==
    \/ \E c \in ConversationIds : AssignCall(c) \/ CloseCall(c) \/ ConnectCall(c)
    \/ \E r \in RequestIds, st \in MaintenanceStatuses : UpdateStatusCall(r, st)
    \/ \E t \in Texts, p \in Photos : AddVisitNoteCall(t, p)

(* C6: while the signed-in user is no manager, or nobody is signed in,       *)
(* assignConversation, closeConversation, updateMaintenanceStatus,           *)
(* addVisitNote and connectConversationRealtime issue no remote call, open   *)
(* no socket and leave the four lists unchanged.                             *)
C6_ManagerOnly ==
    /\ [](NotManager => ManagerOnlyRefused)
    /\ [][NotManager => ~ManagerOnlyCall]_vars

(* a tenant is signed in with conversations and requests listed, and the *)
(* backend could be called                                               *)
C6_Witness ==
    /\ currentUser = UserBob
    /\ conversations # <<>> /\ maintenanceRequests # <<>>
    /\ CanCallRemote
    /\ ManagerOnlyRefused

(* the operation suspended in slot s rejects with e and nothing else changes *)
RejectsWith(s, op, e) ==
    /\ last' = Rejection(op, e)
    /\ pending'[s] = Idle
    /\ remoteCalls' = remoteCalls
    /\ lists' = lists

(* C7: when the remote call of assignConversation, closeConversation,      *)
(* updateMaintenanceStatus or sendMessage fails, the operation rejects     *)
(* with that same error, issues no further request and leaves the four     *)
(* lists unchanged.                                                        *)
C7_RemoteFailureRethrown ==
    [][\A s \in Slots, e \in RemoteErrors :
         /\ AssignFailed(s, e) => RejectsWith(s, "assignConversation", e)
         /\ CloseFailed(s, e) => RejectsWith(s, "closeConversation", e)
         /\ UpdateStatusFailed(s, e) => RejectsWith(s, "updateMaintenanceStatus", e)
         /\ SendFailed(s, e) => RejectsWith(s, "sendMessage", e)]_vars

(* a manager's sendMessage has just been rejected by the network *)
C7_Witness ==
    /\ last = Rejection("sendMessage", "Network request failed")
    /\ currentUser = UserAnn
    /\ conversations # <<>>

SignedOut == currentUser = NullUser /\ authToken = NullToken

(* C8: a rejected signIn, whether the authentication or the bootstrap fetch *)
(* failed, leaves the store signed out: currentUser null, no token, lists   *)
(* unchanged.                                                               *)
C8_RejectedSignInSignedOut ==
    [][\A s \in Slots, e \in RemoteErrors :
         /\ (SignInAuthFailed(s, e) /\ SignedOut) => (SignedOut' /\ lists' = lists)
         /\ SignInBootstrapFailed(s, e) => (SignedOut' /\ lists' = lists)]_vars

IsSortedDescending(items) ==
    \A i, j \in DOMAIN items : i < j => items[i].lastMessageAt >= items[j].lastMessageAt

(* items holds exactly the conversations of expected, in some order *)
SameConversations(items, expected) ==
    /\ Len(items) = Len(expected)
    /\ \A i \in DOMAIN expected : \E j \in DOMAIN items : items[j] = expected[i]

(* a conversation with its unread count cleared when it is closed *)
ClosedRead(item) == [item EXCEPT !.unreadCount = IF item.status = "closed" THEN 0 ELSE @]

(* the token is stored by a step that issues no request, and the bootstrap *)
(* request goes out in a later step of the same sign-in                    *)
TokenBeforeBootstrap ==
    \A s \in Slots :
        /\ (pending[s].op = "signIn" /\ pending'[s].op = "signIn"
              /\ pending[s].pc = "auth" /\ pending'[s].pc # "auth")
             => /\ authToken' = pending'[s].session.accessToken
                /\ remoteCalls' = remoteCalls
                /\ pending'[s].pc = "persist"
        /\ (pending'[s].op = "signIn" /\ pending'[s].pc = "bootstrap"
              /\ pending[s] # pending'[s])
             => pending[s].op = "signIn" /\ pending[s].pc = "persist"

(* C9 as stated: after a successful signIn, messages, maintenanceRequests and *)
(* visitNotes equal the bootstrap's lists, conversations holds exactly the    *)
(* bootstrap's conversations sorted by lastMessageAt descending, and the      *)
(* token is stored before the bootstrap request is issued.                    *)
C9_SignInAppliesBootstrap ==
    [][/\ \A s \in Slots, b \in Bootstraps :
            SignInBootstrapOk(s, b) =>
                /\ messages' = b.messages
                /\ maintenanceRequests' = b.maintenanceRequests
                /\ visitNotes' = b.visitNotes
                /\ SameConversations(conversations', b.conversations)
                /\ IsSortedDescending(conversations')
       /\ TokenBeforeBootstrap]_vars

(* C9 amended: as above, but conversations holds the bootstrap's conversations *)
(* with the unread count of every closed one set to 0.                         *)
C9_SignInAppliesNormalizedBootstrap ==
    [][/\ \A s \in Slots, b \in Bootstraps :
            SignInBootstrapOk(s, b) =>
                /\ messages' = b.messages
                /\ maintenanceRequests' = b.maintenanceRequests
                /\ visitNotes' = b.visitNotes
                /\ SameConversations(conversations',
                                     [i \in DOMAIN b.conversations |->
                                        ClosedRead(b.conversations[i])])
                /\ IsSortedDescending(conversations')
       /\ TokenBeforeBootstrap]_vars

(* a signIn has just resolved with the bootstrap whose conversations arrive *)
(* unsorted and hold a closed conversation with unread messages             *)
C9_Witness ==
    /\ last = Resolved("signIn")
    /\ currentUser # NullUser /\ authToken = TokenOf(currentUser)
    /\ messages = BootstrapA.messages
    /\ Len(conversations) = 2
    /\ conversations[1].id = "c2" /\ conversations[1].unreadCount = 0
    /\ conversations[2].id = "c1"
    /\ BootstrapA.conversations[1].id = "c1"
    /\ BootstrapA.conversations[2].unreadCount > 0

(* C10: after signOut, no late response and no realtime frame puts entities *)
(* back: the lists stay empty and currentUser stays null until the next     *)
(* sign-in is started.                                                      *)
C10_SignedOutStaysEmpty == sinceSignOut => (currentUser = NullUser /\ AllEmpty)

(* C11: when updateMaintenanceStatus(id, status) succeeds, the entry of     *)
(* maintenanceRequests whose id is id is exactly the record the backend     *)
(* returned, updatedAt included; no field comes from the previous entry or  *)
(* from the local clock.                                                    *)
C11_StatusUpdateVerbatim ==
    [][\A s \in Slots, at \in ServerTimes \ {NoTime} :
         UpdateStatusOk(s, at) =>
             /\ Len(maintenanceRequests') = Len(maintenanceRequests)
             /\ \A i \in DOMAIN maintenanceRequests :
                   maintenanceRequests[i].id = pending[s].requestId =>
                       maintenanceRequests'[i] =
                           ServerRequest(pending[s].requestId, pending[s].status, at)]_vars

(* a status update has just resolved: the entry carries the backend's status *)
(* and time while the local clock shows another time                         *)
C11_Witness ==
    /\ last = Resolved("updateMaintenanceStatus")
    /\ clock = 0
    /\ \E i \in DOMAIN maintenanceRequests :
          maintenanceRequests[i] = ServerRequest("r1", "done", 1)

(* C12: after markConversationRead(id) the conversation with that id has  *)
(* unreadCount 0, whatever its previous count and status, and the         *)
(* operation never fails (it can run in every state).                     *)
C12_MarkReadZeroes ==
    /\ [](\A c \in ConversationIds : ENABLED markConversationRead(c))
    /\ [][\A c \in ConversationIds :
            markConversationRead(c) =>
                \A i \in DOMAIN conversations' :
                    conversations'[i].id = c => conversations'[i].unreadCount = 0]_vars

(* the new conversation of the first bootstrap, which arrives with two unread *)
(* messages, has been marked read: nothing else clears the count and leaves   *)
(* the conversation new and unassigned                                        *)
C12_Witness ==
    \E i \in DOMAIN conversations :
        /\ conversations[i].id = "c1"
        /\ conversations[i].status = "new"
        /\ conversations[i].lastMessageAt = 0
        /\ conversations[i].unreadCount = 0

(* C13: markConversationRead is idempotent: in every store state and for   *)
(* every conversation id, applying it twice yields the same four lists as  *)
(* applying it once.                                                       *)
C13_MarkReadIdempotent ==
    /\ [](\A c \in ConversationIds :
            ReadConversations(ReadConversations(conversations, c), c)
                = ReadConversations(conversations, c))
    /\ [][\A c \in ConversationIds :
            markConversationRead(c) =>
                /\ conversations' = ReadConversations(conversations, c)
                /\ messages' = messages
                /\ maintenanceRequests' = maintenanceRequests
                /\ visitNotes' = visitNotes]_vars

(* markConversationRead has run on the new conversation of the first      *)
(* bootstrap, which arrived with two unread messages; a second application *)
(* leaves the list as it is                                                *)
C13_Witness ==
    /\ Len(conversations) = 2
    /\ \E i \in DOMAIN conversations :
          /\ conversations[i].id = "c1"
          /\ conversations[i].status = "new"
          /\ conversations[i].unreadCount = 0
          /\ BootstrapA.conversations[1].unreadCount = 2
    /\ ReadConversations(conversations, "c1") = conversations

(* the frame texts that are not the JSON text of any payload *)
InvalidFrameTexts == FrameTexts \ {JSONstringify(payload) : payload \in Payloads}

(* C14: when the socket delivers a frame that is not valid JSON, onError    *)
(* receives the decoding-failure message, onMessage is not invoked, nothing *)
(* is thrown and the message list (like the other lists) is unchanged.      *)
C14_InvalidFrameReported ==
    [][\A socket \in sockets, text \in InvalidFrameTexts :
         socketOnMessage(socket, text) =>
             /\ last' = ParseError
             /\ messages' = messages
             /\ conversations' = conversations
             /\ maintenanceRequests' = maintenanceRequests
             /\ visitNotes' = visitNotes]_vars

(* an open socket has delivered a frame and the latest event is the parse *)
(* error handed to onError, with messages listed in the store             *)
C14_Witness ==
    /\ last = ParseError
    /\ messages # <<>>
    /\ \E socket \in sockets : socket.received = 1

(* the time and the id a payload gets when it arrives *)
ArrivalTime(payload) == IF payload.createdAt # NoTime THEN payload.createdAt ELSE clock
ArrivalId(payload) ==
    IF payload.id # NoMessageId THEN payload.id
    ELSE RealtimeId(payload.conversationId, ArrivalTime(payload),
                    payload.senderType, payload.senderName)

IsStored(id) == \E i \in DOMAIN messages : messages[i].id = id

(* one message for the payload was added at the end of the list *)
PayloadAppended(payload) ==
    /\ Len(messages') = Len(messages) + 1
    /\ SubSeq(messages', 1, Len(messages)) = messages
    /\ LET m == messages'[Len(messages')]
       IN  /\ m.id = ArrivalId(payload)
           /\ m.conversationId = payload.conversationId
           /\ m.senderType = payload.senderType
           /\ m.senderName = payload.senderName
           /\ m.createdAt = ArrivalTime(payload)

(* the conversation was touched as by an incoming message; raises tells *)
(* whether the sender counts as unread                                  *)
ConversationTouched(before, after, payload, raises) ==
    /\ after.lastMessageAt = ArrivalTime(payload)
    /\ after.unreadCount = IF raises THEN before.unreadCount + 1 ELSE before.unreadCount
    /\ after.status = before.status

FromVisitorOrBot(payload) == payload.senderType \in {"visitor", "bot"}

SentPost(before, after, sender, sentAt) ==
    /\ isPmRole(sender.role) /\ before.status \in {"new", "waiting"} =>
          after.status = "assigned" /\ after.assignedPmId = sender.id
    /\ ~isPmRole(sender.role) =>
          after.status = "waiting" /\ after.assignedPmId = before.assignedPmId
    /\ after.unreadCount = 0
    /\ after.lastMessageAt = sentAt

(* C16: after a successful sendMessage on a non-closed conversation: sent by *)
(* a manager to a new or waiting conversation, the status is assigned and    *)
(* the assignee is the sender; sent by someone else, the status is waiting   *)
(* and the assignee is unchanged; in both cases unreadCount is 0 and         *)
(* lastMessageAt is the sent message's timestamp.                            *)
C16_SendUpdatesConversation ==
    [][\A s \in Slots, at \in ServerTimes :
         (/\ SendOk(s, at)
          /\ HasConversation(conversations, pending[s].conversationId)
          /\ ~IsClosedInStore(pending[s].conversationId))
         => SentPost(FindConversation(conversations, pending[s].conversationId),
                     FindConversation(conversations', pending[s].conversationId),
                     pending[s].user,
                     messages'[Len(messages')].createdAt)]_vars

(* the send of a photo in a conversation with a linked maintenance request *)
(* resolved remotely: the message is appended, the conversation updated,   *)
(* and no note is stored yet                                               *)
PhotoSent(s) ==
    LET o == pending[s]
        m == messages'[Len(messages')]
    IN  /\ Len(messages') = Len(messages) + 1
        /\ SubSeq(messages', 1, Len(messages)) = messages
        /\ m.id = ServerMsgId("sent", o.request)
        /\ m.photoUri = o.photoUri
        /\ HasConversation(conversations, o.conversationId) =>
              LET after == FindConversation(conversations', o.conversationId)
              IN  after.lastMessageAt = m.createdAt /\ after.unreadCount = 0
        /\ visitNotes' = visitNotes
        /\ maintenanceRequests' = maintenanceRequests

(* C17: when sendMessage with a photo succeeds remotely but the follow-up   *)
(* addMaintenanceUpdate for the linked request fails, sendMessage completes *)
(* without error, the sent message is in messages, the conversation is      *)
(* updated, and visitNotes and maintenanceRequests are unchanged.           *)
C17_PhotoLinkFailureSwallowed ==
    [][/\ \A s \in Slots, at \in ServerTimes :
            (SendOk(s, at) /\ SendLinksPhoto(pending[s])) => PhotoSent(s)
       /\ \A s \in Slots, e \in RemoteErrors :
            SendLinkFailed(s, e) =>
                /\ last' = Resolved("sendMessage")
                /\ pending'[s] = Idle
                /\ lists' = lists]_vars

(* a photo was sent in c1, whose maintenance request r1 is listed, the send *)
(* has completed without error, and no note from the chat was stored         *)
C17_Witness ==
    /\ last = Resolved("sendMessage")
    /\ \E i \in DOMAIN messages :
          /\ messages[i].photoUri = "photo-1"
          /\ messages[i].conversationId = "c1"
          /\ messages[i].id = ServerMsgId("sent", 1)
    /\ \E i \in DOMAIN maintenanceRequests : maintenanceRequests[i].conversationId = "c1"
    /\ \A i \in DOMAIN visitNotes : visitNotes[i].source # "chat"
    /\ remoteCalls = 2
    /\ \A s \in Slots : pending[s] = Idle

(* C18: addVisitNote and addMaintenanceUpdate reject locally, before any   *)
(* remote call, exactly when the trimmed note is empty and no photo is     *)
(* attached; an empty note with a photo is accepted and sent.  (Stated for *)
(* a signed-in manager and a listed request, so that no other check of the *)
(* two operations rejects.)                                                *)
C18_NoteOrPhotoRequired ==
    isPmRole(currentUser.role) =>
        \A t \in Texts, p \in Photos :
            /\ addVisitNoteCall(t, p).result = "threw"
                  <=> (Trim(t) = <<>> /\ ~hasPhoto(p))
            /\ \A r \in RequestIds :
                  HasMaintenanceRequest(r) =>
                      (addMaintenanceUpdateCall(r, t, p).result = "threw"
                         <=> (Trim(t) = <<>> /\ ~hasPhoto(p)))

(* C19: when the backend links the saved visit note to a maintenance       *)
(* request it created, then once addVisitNote completes the request is in  *)
(* maintenanceRequests with status new, as the bootstrap fetched after the *)
(* save delivered it.                                                      *)
C19_AutoCreatedRequestListed ==
    [][\A s \in Slots, b \in Bootstraps :
         (/\ pending[s].op = "addVisitNote" /\ pending[s].pc = "bootstrap"
          /\ AddVisitNoteBootstrapOk(s, b))
         => /\ last' = Resolved("addVisitNote")
            /\ \A i \in DOMAIN b.maintenanceRequests :
                  b.maintenanceRequests[i].id = pending[s].saved.maintenanceRequestId =>
                      \E j \in DOMAIN maintenanceRequests' :
                          maintenanceRequests'[j] = b.maintenanceRequests[i]]_vars

(* addVisitNote has completed and the request r2, which the first bootstrap *)
(* does not hold, is listed with status new                                 *)
C19_Witness ==
    /\ last = Resolved("addVisitNote")
    /\ \A i \in DOMAIN BootstrapA.maintenanceRequests :
          BootstrapA.maintenanceRequests[i].id # "r2"
    /\ \E j \in DOMAIN maintenanceRequests :
          maintenanceRequests[j].id = "r2" /\ maintenanceRequests[j].status = "new"

(* before is an initial part of after *)
IsPrefix(before, after) ==
    /\ Len(before) <= Len(after)
    /\ SubSeq(after, 1, Len(before)) = before

(* a step of a signed-in store that is neither signOut nor a sign-in's own *)
(* bootstrap                                                               *)
SessionStep ==
    /\ currentUser # NullUser
    /\ ~signOut
    /\ ~(\E s \in Slots, b \in Bootstraps : SignInBootstrapOk(s, b))

(* C20: between a sign-in and the next sign-out the message list is       *)
(* append-only: every store operation leaves messages unchanged or adds   *)
(* to it, and a listed message is never removed or modified.              *)
C20_MessagesAppendOnly == [][SessionStep => IsPrefix(messages, messages')]_vars

(* C21: after addMaintenanceUpdate succeeds, the saved note is the first     *)
(* element of visitNotes with all earlier notes following in their previous  *)
(* order, and the maintenance request whose id is the note's                 *)
(* maintenanceRequestId has updatedAt = the note's createdAt, while its      *)
(* other fields and all other requests are unchanged.                        *)
C21_UpdateNotePrepended ==
    [][\A s \in Slots, at \in ServerTimes \ {NoTime} :
         AddUpdateOk(s, at) =>
             LET note == SavedMaintenanceUpdate(pending[s], at)
             IN  /\ visitNotes' = <<note>> \o visitNotes
                 /\ Len(maintenanceRequests') = Len(maintenanceRequests)
                 /\ \A i \in DOMAIN maintenanceRequests :
                       maintenanceRequests'[i] =
                           IF maintenanceRequests[i].id = note.maintenanceRequestId
                           THEN [maintenanceRequests[i] EXCEPT !.updatedAt = note.createdAt]
                           ELSE maintenanceRequests[i]]_vars

(* a second update of r1 has just been saved: its note stands before the *)
(* first one, and r1, delivered with updatedAt 0, carries the note's time *)
C21_Witness ==
    /\ last = Resolved("addMaintenanceUpdate")
    /\ Len(visitNotes) = 2
    /\ visitNotes[1].id = "n4" /\ visitNotes[1].maintenanceRequestId = "r1"
    /\ BootstrapA.maintenanceRequests[1].updatedAt = 0
    /\ maintenanceRequests = << Req("r1", "c1", "unit-1", "new", visitNotes[1].createdAt) >>
    /\ visitNotes[1].createdAt = 1

(* the call suspended in slot t is an updateMaintenanceStatus of requestId *)
UpdatesRequest(t, requestId) ==
    /\ pending[t].op = "updateMaintenanceStatus"
    /\ pending[t].requestId = requestId

(* C23: when two updateMaintenanceStatus calls on the same request are in  *)
(* flight at once, each response replaces the local entry when it resolves *)
(* and leaves the other call in flight, so that after both have resolved   *)
(* the entry is the response that resolved last, in whichever order the    *)
(* two were issued.                                                        *)
C23_LastResponseWins ==
    [][\A s \in Slots, at \in ServerTimes \ {NoTime} :
         UpdateStatusOk(s, at) =>
             /\ \A i \in DOMAIN maintenanceRequests' :
                   maintenanceRequests'[i].id = pending[s].requestId =>
                       maintenanceRequests'[i] =
                           ServerRequest(pending[s].requestId, pending[s].status, at)
             /\ \A t \in Slots \ {s} :
                   UpdatesRequest(t, pending[s].requestId) => pending'[t] = pending[t]]_vars

(* two updates of r1 were issued; the one issued second has resolved and r1 *)
(* shows its status, while the one issued first is still in flight          *)
C23_Witness ==
    /\ last = Resolved("updateMaintenanceStatus")
    /\ remoteCalls = 2
    /\ UpdatesRequest(1, "r1") /\ pending[1].status = "in_progress"
    /\ pending[2] = Idle
    /\ \E i \in DOMAIN maintenanceRequests :
          maintenanceRequests[i] = ServerRequest("r1", "done", 1)

(* C25: a realtime frame whose message id is already in the message list  *)
(* changes nothing: the message list is as before, and the conversation's *)
(* unreadCount and lastMessageAt are those before the duplicate arrived.  *)
C25_DuplicateFrameIgnored ==
    [][\A socket \in sockets, payload \in Payloads :
         (socketOnMessage(socket, JSONstringify(payload)) /\ IsStored(ArrivalId(payload)))
         => /\ messages' = messages
            /\ HasConversation(conversations, payload.conversationId) =>
                  LET before == FindConversation(conversations, payload.conversationId)
                      after == FindConversation(conversations', payload.conversationId)
                  IN  /\ after.unreadCount = before.unreadCount
                      /\ after.lastMessageAt = before.lastMessageAt]_vars

(* the conversation the message that the send in slot s awaits belongs to *)
(* is closed in the store                                                 *)
SendsToClosed(s) ==
    /\ pending[s].op = "sendMessage" /\ pending[s].pc = "send"
    /\ IsClosedInStore(pending[s].conversationId)

(* C26: no message sent by the local user is appended to a conversation    *)
(* that is closed in the store at the moment of appending, also when       *)
(* closeConversation completed while the sendMessage was awaiting the      *)
(* backend; such a late completion leaves the closed conversation's        *)
(* lastMessageAt unchanged.                                                *)
C26_NoSendIntoClosed ==
    [][\A s \in Slots, at \in ServerTimes :
         (SendsToClosed(s) /\ SendOk(s, at))
         => /\ messages' = messages
            /\ FindConversation(conversations', pending[s].conversationId).lastMessageAt
                  = FindConversation(conversations, pending[s].conversationId).lastMessageAt]_vars

(* the ids the backend assigns: those of stored and of sent messages *)
HasServerId(message) == message.id.k \in {"stored", "sent"}

(* C24: message ids in the message list are unique in every reachable     *)
(* state, under every interleaving of a sendMessage response, a realtime   *)
(* frame carrying the same message id and a refreshConversationMessages    *)
(* poll returning it.  (Stated for two entries of one conversation under   *)
(* an id the backend assigned: one message listed twice.)                  *)
C24_MessageIdsUnique ==
    \A i, j \in DOMAIN messages :
        (/\ HasServerId(messages[i])
         /\ messages[i].id = messages[j].id
         /\ messages[i].conversationId = messages[j].conversationId) => i = j

(* the ids of the conversations, in the order of the list *)
IdsInOrder(items) == [i \in DOMAIN items |-> items[i].id]

(* C27: in every reachable state the conversations list is ordered by     *)
(* non-increasing lastMessageAt: every operation that changes a           *)
(* lastMessageAt or replaces the list re-sorts it, and markConversationRead *)
(* preserves the order.                                                   *)
C27_ConversationsSorted ==
    /\ [](\A i, j \in DOMAIN conversations :
            i < j => conversations[i].lastMessageAt >= conversations[j].lastMessageAt)
    /\ [][\A c \in ConversationIds :
            markConversationRead(c) =>
                IdsInOrder(conversations') = IdsInOrder(conversations)]_vars

(* closing c1, which the bootstrap lists after c2, has moved it to the *)
(* front: its lastMessageAt is now the later one                       *)
C27_Witness ==
    /\ last = Resolved("closeConversation")
    /\ IdsInOrder(BootstrapConversations(BootstrapA)) = <<"c2", "c1">>
    /\ IdsInOrder(conversations) = <<"c1", "c2">>
    /\ conversations[1].lastMessageAt > conversations[2].lastMessageAt

(* C28: in every reachable state every conversation with status closed has *)
(* unreadCount 0, whatever the backend returned in bootstrap or message    *)
(* refresh and whatever realtime frames arrived after the close.           *)
C28_ClosedHasNoUnread ==
    \A i \in DOMAIN conversations :
        conversations[i].status = "closed" => conversations[i].unreadCount = 0

(* a refresh has just applied the backend's view of c1, closed with three *)
(* unread messages: c1 is listed closed                                    *)
C28_Witness ==
    /\ last = Resolved("refreshConversationMessages")
    /\ \E remote \in RemoteConversations :
          remote.status = "closed" /\ remote.unreadCount = 3
    /\ HasConversation(conversations, "c1")
    /\ FindConversation(conversations, "c1").status = "closed"
    /\ FindConversation(conversations, "c1").unreadCount = 0
    /\ \A i \in DOMAIN messages : messages[i].senderType # "system"

C30_FailedRestoreSignsOut ==
    [][\A e \in RemoteErrors :
         (restore.pc = "bootstrap" /\ restore.active /\ RestoreFailed(e))
         => /\ currentUser' = NullUser
            /\ authToken' = NullToken
            /\ conversations' = <<>>
            /\ messages' = <<>>
            /\ maintenanceRequests' = <<>>
            /\ visitNotes' = <<>>
            /\ persistedSession' = NoSession
            /\ isHydratingAuth' = FALSE]_vars

(* the restore has failed after its bootstrap request went out: the store *)
(* is signed out and empty, nothing is persisted, hydration is over       *)
C30_Witness ==
    /\ last = Logged("restore.failed", "Network request failed")
    /\ remoteCalls = 1
    /\ restore = [pc |-> "done", active |-> TRUE]
    /\ SignedOut /\ AllEmpty
    /\ persistedSession = NoSession
    /\ ~isHydratingAuth

(* the open clients that were made for the screen *)
ScreenSockets == {socket \in sockets : socket.caller # NoCaller}

(* a connect of the screen is awaiting the backend *)
ScreenConnectPending ==
    \E s \in Slots :
        pending[s].op = "connectConversationRealtime" /\ pending[s].caller # NoCaller

(* C22: for every interleaving of screen mount, connectConversationRealtime *)
(* resolving or rejecting, effect re-run and unmount: every socket opened   *)
(* for the screen is closed once the screen is unmounted and the pending    *)
(* connect has settled; at most one socket stays open for a mounted screen, *)
(* the one the screen holds; and an error reported after unmount does not   *)
(* change the screen's state.                                               *)
C22_ScreenSocketsClosed ==
    /\ []((~screen.mounted /\ ~ScreenConnectPending) => ScreenSockets = {})
    /\ [](\A socket \in ScreenSockets : socket.caller = screen.client)
    /\ [](Cardinality(ScreenSockets) <= 1)
    /\ [][(~screen.mounted /\ ~screen'.mounted) =>
             screen'.realtimeError = screen.realtimeError]_vars

(* the screen went away while its only connect was awaiting the backend; *)
(* the connect has now resolved with a client, and no socket is open     *)
C22_Witness ==
    /\ last = Resolved("connectConversationRealtime")
    /\ ~screen.mounted
    /\ screen.run = 1 /\ screen.opened = {1}
    /\ sockets = {}
    /\ ~ScreenConnectPending

====
